---------------------------- MODULE Spec2Model ----------------------------
(***************************************************************************)
(* A model of the lineup overlap / uniqueness tools of get_xmltvlisting.    *)
(*                                                                         *)
(* Strings are sequences of code points, so that Python's string           *)
(* ordering, int(), str() and float formatting are computed and not        *)
(* assumed.  A Python dict is an insertion-ordered key sequence plus a     *)
(* function; a Python set is a TLA+ set whose iteration order is chosen    *)
(* nondeterministically wherever the code iterates it.                     *)
(***************************************************************************)
EXTENDS Integers, Sequences, FiniteSets, TLC

VARIABLES
    \* xmltv_analyze.analyze / analyze_channels_overlap.main
    tool,           \* which of the two analysers runs
    in_dir,         \* the input folder: file name -> channel ids of the file
    argv,           \* the arguments given besides --input_dir and --out_dir
    order,          \* insertion order of the parsed dict
    parsed,         \* parsed / lineup_channels: lineup id -> channel map
    pc,             \* position in the run
    keys,           \* keys / lineup_ids: the sorted lineup ids
    sets,           \* sets: lineup id -> set of channel ids
    idx,            \* index of the current for-loop
    matrix_counts,  \* matrix_counts / counts_rows
    matrix_jacc,    \* matrix_jacc / jac_rows
    csv,            \* the CSV files written so far
    run,            \* 1 for the first run over the inputs, 2 for the repeat
    first_csv,      \* the files the first run wrote
    an_rc,          \* the exit status of the process, once it has ended
    \* channels_overlap_report.main / build_channel_overlap_remove_lists.main
    pr_tool,        \* which of the two primary-baseline reports runs
    lineup_data,    \* lineup_data / data: (lineup id, label) -> channel map
    pr_pc,          \* position in the run
    g_idx,          \* index of the group being rendered
    m_idx,          \* index of the current member of the group
    primary,        \* primary of the group being rendered
    pset,           \* pset / p_ids: the channel ids of the primary
    summary_rows,   \* summary_rows
    remove_txt,     \* remove_txt / the lines render returned, one block per group
    published,      \* the report files written
    \* build_keep_remove_report_v0_2_0.main / build_keep_remove_report_from_downloads.main
    kb_tool,        \* which of the base-lineup reports runs
    xml_files,      \* the catalog folder: file name -> channel ids of the file
    analysis_dir,   \* the unique_channels_<id>.csv files of the latest analysis folder: lineup id -> channel_id column (<<>>: no such folder)
    base_lineup_id, \* BASE_LINEUP_ID as configured for the run
    kb_pc,          \* position in the run
    kb_files,       \* the catalog files in report order
    lineup_ids,     \* the lineup ids of these files
    kb_rc,          \* the exit status of the process, once it has ended
    kb_idx,         \* index of the lineup being reported
    report,         \* the sections written to the report, one per lineup
    kb_run,         \* 1 for the run as configured, 2 for the run with no base lineup
    first_report,   \* the sections the first run wrote
    \* xmltv_analyze._read_xmltv_channels / analyze_channels_overlap.parse_channels
    ld_tool,        \* which of the two loaders runs
    records,        \* the <channel> elements of the file, in document order
    rec_idx,        \* index of the element the loop is at
    ld_channels,    \* channels: the channel map built so far
    ld_pc,          \* position in the call
    \* fetch_xmltvlistings_channels.main / fetch_xmltvlistings_listings.main
    ft_tool,        \* which of the two fetchers runs
    env_key,        \* the value of API_XMLTVLISTING_KEY, "" if it is not set
    days,           \* --days
    lineups,        \* args.lineups
    ft_idx,         \* index of the lineup the for-loop is at
    any_blocked,    \* any_blocked
    out_dir,        \* the audit folder: file name -> text
    device_dir,     \* the device folder: file name -> text
    publish_dir,    \* pub / publish_dir, the publish folder: file name -> text
    stdout,         \* the lines printed
    fetched,        \* what the last pass of the loop got from the provider
    urls,           \* the lineup ids asked of the provider, in the order of the requests
    exit_code,      \* the exit code of the process, once it has ended
    ft_log,         \* the lines of fetch_listings_<timestamp>.log.txt
    ft_pc,          \* position in the run
    \* fetch_xmltvlistings_get_lineups.main
    gl_key,         \* the value of API_XMLTVLISTING_KEY, "" if it is not set
    gl_raw,         \* raw_text in a sequence, <<>> before http_get has returned
    gl_pub,         \* pub, the publish folder: file name -> text
    gl_audit,       \* out_dir, the audit folder: file name -> text
    gl_stdout,      \* the lines printed
    gl_rc,          \* the exit code of the process, once it has ended
    gl_pc,          \* position in main
    \* apply_channel_mapping_to_channels_json.main
    mp_channels_file, \* IPTV/channels.json
    mp_map_file,    \* IPTV/channel_name_map.csv
    mp_mapping,     \* mapping
    mp_channels,    \* channels
    mp_idx,         \* index of the record the for-loop is at
    mp_iptv_out,    \* IPTV/channels.enriched.json
    mp_rep_out,     \* out/reports/<timestamp>/channels.enriched.json
    mp_rc,          \* the exit code of the process, once it has ended
    mp_pc           \* position in main

(***************************************************************************)
(* Bounds of the model.                                                    *)
(***************************************************************************)
\* Number of distinct channel ids ("1", "2", ...) the analysed catalogs may use.
NumChannels == 3
\* Number of distinct channel ids the catalogs of the five configured lineups of the
\* primary-baseline reports may use.
GroupChannels == 3
\* Number of distinct channel ids the catalogs read by the base-lineup reports may use.
ReportChannels == 2

(***************************************************************************)
(* Strings.                                                                *)
(***************************************************************************)
Digit(d) == 48 + d

IsDigitChar(c) == c >= 48 /\ c <= 57

\* str(n) for a natural number n.
RECURSIVE Str(_)
Str(n) == IF n < 10 THEN <<Digit(n)>> ELSE Str(n \div 10) \o <<Digit(n % 10)>>

\* int(s) for a string of decimal digits.
RECURSIVE IntOf(_)
IntOf(s) == IF s = <<>> THEN 0
            ELSE 10 * IntOf(SubSeq(s, 1, Len(s) - 1)) + (s[Len(s)] - 48)

\* str.isdigit(): non-empty and every character a digit.
IsDigit(s) == s # <<>> /\ \A i \in 1..Len(s) : IsDigitChar(s[i])

\* The decimal digits (\d of a str pattern, the digits int() reads; Unicode 14) come
\* in runs of ten code points, "0" to "9" of a script; these are the zeros.
DecimalZeros ==
    {48, 1632, 1776, 1984, 2406, 2534, 2662, 2790, 2918, 3046, 3174, 3302, 3430, 3558,
     3664, 3792, 3872, 4160, 4240, 6112, 6160, 6470, 6608, 6784, 6800, 6992, 7088,
     7232, 7248, 42528, 43216, 43264, 43472, 43504, 43600, 44016, 65296, 66720, 68912,
     69734, 69872, 69942, 70096, 70384, 70736, 70864, 71248, 71360, 71472, 71904,
     72016, 72784, 73040, 73120, 92768, 92864, 93008, 120782, 120792, 120802, 120812,
     120822, 123200, 123632, 125264, 130032}

IsDecimalChar(c) == \E z \in DecimalZeros : c >= z /\ c <= z + 9

DecimalValue(c) == c - (CHOOSE z \in DecimalZeros : c >= z /\ c <= z + 9)

\* s is one or more decimal digits.
IsDecimal(s) == s # <<>> /\ \A i \in 1..Len(s) : IsDecimalChar(s[i])

\* int(s) for a string of decimal digits of any script.
RECURSIVE IntOfDecimal(_)
IntOfDecimal(s) ==
    IF s = <<>> THEN 0
    ELSE 10 * IntOfDecimal(SubSeq(s, 1, Len(s) - 1)) + DecimalValue(s[Len(s)])

\* Python's s < t on strings: lexicographic by code point, a proper prefix first.
RECURSIVE StrLess(_, _)
StrLess(s, t) ==
    IF t = <<>> THEN FALSE
    ELSE IF s = <<>> THEN TRUE
    ELSE IF s[1] # t[1] THEN s[1] < t[1]
    ELSE StrLess(Tail(s), Tail(t))

\* A sort key is a tuple of numbers and strings; it is kept as one sequence of
\* numbers whose lexicographic order (StrLess) is the order of the tuples: a number
\* is one element, a string that is not the last component ends with 0.
\* Stable insertion of x into a sequence sorted by key (Python's sorted is stable: x
\* goes after every element whose key is not greater).
RECURSIVE InsertSorted(_, _, _)
InsertSorted(x, s, key) ==
    IF s = <<>> THEN <<x>>
    ELSE IF StrLess(key[x], key[s[Len(s)]])
         THEN InsertSorted(x, SubSeq(s, 1, Len(s) - 1), key) \o <<s[Len(s)]>>
         ELSE s \o <<x>>

\* sorted(s, key=...), key a function from the elements of s to their sort keys.
RECURSIVE SortedBy(_, _)
SortedBy(s, key) ==
    IF s = <<>> THEN <<>>
    ELSE InsertSorted(s[Len(s)], SortedBy(SubSeq(s, 1, Len(s) - 1), key), key)

\* The orders in which a set can be iterated.
RECURSIVE Iterations(_)
Iterations(S) ==
    IF S = {} THEN {<<>>}
    ELSE UNION {{<<x>> \o q : q \in Iterations(S \ {x})} : x \in S}

Range(s) == {s[i] : i \in 1..Len(s)}

(***************************************************************************)
(* Inputs: channel ids, display names, lineup ids.                          *)
(***************************************************************************)
ChannelIds == {Str(n) : n \in 1..NumChannels}

CNN == <<67, 78, 78>>
ESPN == <<69, 83, 80, 78>>
HBO == <<72, 66, 79>>
FOX == <<70, 79, 88>>

\* Lineup ids as _short_label / RE_CHANNELS extract them: digit strings.
\* "9", "10" and "09".
LineupIdPool == {<<57>>, <<49, 48>>, <<48, 57>>}

\* The display names the file of lineup lid carries for a channel id: the names of
\* the catalog, except that lineup "09" lists channel "2" without a display name,
\* and no catalog names the ids past "4".
DisplayNames(lid, cid) ==
    CASE cid = Str(1) -> <<CNN>>
      [] cid = Str(2) -> IF lid = <<48, 57>> THEN <<>> ELSE <<ESPN>>
      [] cid = Str(3) -> <<HBO>>
      [] cid = Str(4) -> <<FOX>>
      [] OTHER -> <<>>

\* Channel(channel_id, names)
Channel(cid, names) == [channel_id |-> cid, names |-> names]

(***************************************************************************)
(* The analysers: xmltv_analyze.py and tools/analyze_channels_overlap.py.  *)
(***************************************************************************)
XmltvAnalyze == "xmltv_analyze"
AnalyzeChannelsOverlap == "analyze_channels_overlap"
Tools == {XmltvAnalyze, AnalyzeChannelsOverlap}

LINEUP_ID == <<108, 105, 110, 101, 117, 112, 95, 105, 100>>
CHANNEL_COUNT == <<99, 104, 97, 110, 110, 101, 108, 95, 99, 111, 117, 110, 116>>
CHANNEL_ID == <<99, 104, 97, 110, 110, 101, 108, 95, 105, 100>>
DISPLAY_NAME == <<100, 105, 115, 112, 108, 97, 121, 95, 110, 97, 109, 101>>

\* xmltv_analyze._read_xmltv_channels on the file of lineup lid holding the channels S:
\* channel_id -> Channel.
_read_xmltv_channels(lid, S) == [cid \in S |-> Channel(cid, DisplayNames(lid, cid))]

\* analyze_channels_overlap.parse_channels: channel_id -> first non-empty display name.
parse_channels(lid, S) ==
    [cid \in S |->
        IF DisplayNames(lid, cid) # <<>> THEN DisplayNames(lid, cid)[1] ELSE <<>>]

\* The channel map a tool loads from the file of lineup lid holding the channels S.
Load(t, lid, S) ==
    IF t = XmltvAnalyze THEN _read_xmltv_channels(lid, S) ELSE parse_channels(lid, S)

\* "xmltv-", ".xml" and "-channels" of the file-name patterns.
XMLTV_DASH == <<120, 109, 108, 116, 118, 45>>
DOT_XML == <<46, 120, 109, 108>>
DASH_CHANNELS == <<45, 99, 104, 97, 110, 110, 101, 108, 115>>

\* re.IGNORECASE: the character c matches the character p of a pattern written in
\* small letters.  A letter matches its capital too, and "s" the long s (U+017F).
SameLetter(c, p) ==
    \/ c = p
    \/ p >= 97 /\ p <= 122 /\ c = p - 32
    \/ p = 115 /\ c = 383

\* The text s matches the literal text pat, letter case ignored.
MatchesText(s, pat) ==
    Len(s) = Len(pat) /\ \A i \in 1..Len(pat) : SameLetter(s[i], pat[i])

\* "$" matches at the end of the text and in front of a line feed that ends it: the
\* texts a pattern ending in "$" may have matched whole.
BeforeEnd(s) ==
    IF s # <<>> /\ s[Len(s)] = 10 THEN {s, SubSeq(s, 1, Len(s) - 1)} ELSE {s}

\* The digits of body when body is "xmltv-", digits, mid and ".xml", letter case
\* ignored; <<>> when it is not.
DigitsIn(body, mid) ==
    LET n == Len(body) - Len(mid) - Len(DOT_XML)
    IN IF /\ n > Len(XMLTV_DASH)
          /\ MatchesText(SubSeq(body, 1, Len(XMLTV_DASH)), XMLTV_DASH)
          /\ IsDecimal(SubSeq(body, Len(XMLTV_DASH) + 1, n))
          /\ MatchesText(SubSeq(body, n + 1, Len(body)), mid \o DOT_XML)
       THEN SubSeq(body, Len(XMLTV_DASH) + 1, n)
       ELSE <<>>

\* The one element of a set of at most one string, <<>> for the empty set.
TheOne(S) == IF S = {} THEN <<>> ELSE CHOOSE x \in S : TRUE

\* re.match(r"(?i)^xmltv-\d+\.xml$", f): the digits of a name that matches, <<>> for
\* a name that does not.
XmltvName(f) == TheOne({DigitsIn(body, <<>>) : body \in BeforeEnd(f)} \ {<<>>})

\* re.search(r"xmltv-(\d+)\.xml$", name, re.IGNORECASE): group 1 of the match, <<>>
\* without a match.  The match may begin anywhere in the name.
SearchXmltv(name) ==
    TheOne({DigitsIn(SubSeq(body, i, Len(body)), <<>>) :
               i \in 1..Len(name), body \in BeforeEnd(name)} \ {<<>>})

\* xmltv_analyze._short_label on a file of the input folder: the digits, or the
\* name of the file when the pattern is not found.
_short_label(f) == IF SearchXmltv(f) # <<>> THEN SearchXmltv(f) ELSE f

\* RE_CHANNELS.match(p.name): group 1 of ^xmltv-(\d+)(?:-channels)?\.xml$ with
\* re.IGNORECASE, <<>> for a name that does not match.
RE_CHANNELS(f) ==
    TheOne({DigitsIn(body, mid) :
               body \in BeforeEnd(f), mid \in {<<>>, DASH_CHANNELS}} \ {<<>>})

\* The lineup id a tool reads from the name of a file it takes.
LabelOf(t, f) == IF t = XmltvAnalyze THEN _short_label(f) ELSE RE_CHANNELS(f)

\* sorted(...) of a set of strings: ascending by code point.
RECURSIVE SortedNames(_)
SortedNames(S) ==
    IF S = {} THEN <<>>
    ELSE LET m == CHOOSE x \in S : \A y \in S \ {x} : StrLess(x, y)
         IN <<m>> \o SortedNames(S \ {m})

\* files: the names of the folder that match the pattern of the tool, sorted (the
\* files of one folder sort as their names do).
InputFiles(t, names) ==
    SortedNames({f \in names : IF t = XmltvAnalyze THEN XmltvName(f) # <<>>
                                ELSE RE_CHANNELS(f) # <<>>})

\* The keys of a dict filled in the order s: each key where it first stands.
RECURSIVE DictKeys(_)
DictKeys(s) ==
    IF s = <<>> THEN <<>>
    ELSE LET r == DictKeys(SubSeq(s, 1, Len(s) - 1))
         IN IF s[Len(s)] \in Range(r) THEN r ELSE Append(r, s[Len(s)])

\* The insertion order of parsed / lineup_channels: parsed[key] = ... for the files
\* in sorted order.
FileOrder(t, files) == DictKeys([i \in 1..Len(files) |-> LabelOf(t, files[i])])

\* The file whose channels the dict holds for lineup id lid: the last file with that
\* id, which overwrites the others.
LastFile(t, files, lid) ==
    LET at == {i \in 1..Len(files) : LabelOf(t, files[i]) = lid}
    IN files[CHOOSE i \in at : \A j \in at : j <= i]

\* xmltv_analyze: key=lambda x: (len(x), x)
LenThenText(x) == <<Len(x)>> \o x

\* analyze_channels_overlap: key=lambda x: int(x) if x.isdigit() else x
\* (RE_CHANNELS only yields digit strings, so int and str keys never meet).
IntIfDigit(x) == IF IsDecimal(x) THEN <<IntOfDecimal(x)>> ELSE x

\* keys = sorted(parsed.keys(), key=...)
SortKeys(t, ord) ==
    IF t = XmltvAnalyze
    THEN SortedBy(ord, [x \in Range(ord) |-> LenThenText(x)])
    ELSE SortedBy(ord, [x \in Range(ord) |-> IntIfDigit(x)])

\* A float that is a ratio of two small integers, kept as <<numerator, denominator>>.
Ratio(n, d) == <<n, d>>
FloatEq(p, q) == p[1] * q[2] = q[1] * p[2]

\* Mutant: the union taken as len(a) + len(b).
_jaccard_sum_union(a, b) ==
    IF a = {} /\ b = {} THEN Ratio(1, 1)
    ELSE IF a = {} \/ b = {} THEN Ratio(0, 1)
    ELSE Ratio(Cardinality(a \cap b), Cardinality(a) + Cardinality(b))

\* Mutant: the guard for two empty sets left out.
_jaccard_no_empty_rule(a, b) ==
    IF a = {} \/ b = {} THEN Ratio(0, 1)
    ELSE Ratio(Cardinality(a \cap b), Cardinality(a \cup b))

\* Mutant: one empty set is enough for the similarity 1.0 ("or" for "and").
_jaccard_one_empty_similar(a, b) ==
    IF a = {} \/ b = {} THEN Ratio(1, 1)
    ELSE Ratio(Cardinality(a \cap b), Cardinality(a \cup b))

\* xmltv_analyze._jaccard
_jaccard(a, b) ==
    IF a = {} /\ b = {} THEN Ratio(1, 1)
    ELSE IF a = {} \/ b = {} THEN Ratio(0, 1)
    ELSE LET inter == Cardinality(a \cap b)
             union == Cardinality(a \cup b)
         IN IF union # 0 THEN Ratio(inter, union) ELSE Ratio(0, 1)

\* Mutant: the intersection divided by len(a) instead of the union.
jaccard_containment(a, b) ==
    IF a = {} /\ b = {} THEN Ratio(1, 1)
    ELSE IF a = {} THEN Ratio(0, 1)
    ELSE Ratio(Cardinality(a \cap b), Cardinality(a))

\* analyze_channels_overlap.jaccard
jaccard(a, b) ==
    IF a = {} /\ b = {} THEN Ratio(1, 1)
    ELSE LET inter == Cardinality(a \cap b)
             union == Cardinality(a \cup b)
         IN IF union # 0 THEN Ratio(inter, union) ELSE Ratio(0, 1)

Similarity(t, a, b) == IF t = XmltvAnalyze THEN _jaccard(a, b) ELSE jaccard(a, b)

\* 2^k modulo m
RECURSIVE PowMod2(_, _)
PowMod2(k, m) == IF k = 0 THEN 1 % m ELSE (2 * PowMod2(k - 1, m)) % m

\* The number of binary places by which the quotient n/d lies below 1 (n <= d) or
\* at or above 2 (n > d): the least s with n * 2^s >= d, the greatest s with
\* d * 2^s <= n.
RECURSIVE PlacesBelow(_, _)
PlacesBelow(n, d) == IF n >= d THEN 0 ELSE 1 + PlacesBelow(2 * n, d)

RECURSIVE PlacesAbove(_, _)
PlacesAbove(n, d) == IF n < 2 * d THEN 0 ELSE 1 + PlacesAbove(n, 2 * d)

\* The float n / d against the quotient n/d, for n, d > 0: -1 when the float is the
\* smaller, 0 when they are equal, 1 when the float is the greater.  The float is
\* the quotient rounded to 53 binary digits, a tie to the even one: with k the
\* exponent for which n * 2^k / d has 53 binary digits before the point, the
\* remainder of n * 2^k by d decides.
FloatSide(n, d) ==
    LET k == 52 + PlacesBelow(n, d) - PlacesAbove(n, d)
        r2 == ((n % (2 * d)) * PowMod2(k, 2 * d)) % (2 * d)
        r == r2 % d
    IN IF r = 0 THEN 0
       ELSE IF 2 * r < d THEN -1
       ELSE IF 2 * r > d THEN 1
       ELSE IF r2 < d THEN -1 ELSE 1

\* f"{x:.4f}" for the float x = n / d, in units of 0.0001: the decimal expansion of
\* the float rounded to 4 decimals.  Where the quotient is no tie the float rounds as
\* the quotient does; where it is one (20000 * n an odd multiple of d) the float
\* rounds to the side on which it lies of the quotient, and to the even digit when
\* it is the quotient (d a power of two).
Round4(q) ==
    LET n == q[1] * 10000
        f == n \div q[2]
        r == n % q[2]
        side == IF 2 * r = q[2] THEN FloatSide(q[1], q[2]) ELSE 0
    IN IF 2 * r > q[2] THEN f + 1
       ELSE IF 2 * r < q[2] THEN f
       ELSE IF side > 0 \/ (side = 0 /\ f % 2 = 1) THEN f + 1
       ELSE f

\* The text of f"{x:.4f}": integer part, point, four decimals.
Fixed4(q) ==
    LET v == Round4(q)
    IN Str(v \div 10000) \o <<46>> \o
       <<Digit((v \div 1000) % 10), Digit((v \div 100) % 10),
         Digit((v \div 10) % 10), Digit(v % 10)>>

\* Mutant: every row is labelled with the first lineup.
CountRow_first_label(t, ks, ss, a) ==
    <<ks[1]>> \o [j \in 1..Len(ks) |-> Str(Cardinality(ss[a] \cap ss[ks[j]]))]

\* One pass of the "for a in keys" loop: the count row and the similarity row of a.
CountRow(t, ks, ss, a) ==
    <<a>> \o [j \in 1..Len(ks) |-> Str(Cardinality(ss[a] \cap ss[ks[j]]))]

JaccRow(t, ks, ss, a) ==
    <<a>> \o [j \in 1..Len(ks) |-> Fixed4(Similarity(t, ss[a], ss[ks[j]]))]

\* Mutant: the "o != k" filter left out.
Others_including_self(t, ks, ss, k) == UNION {ss[o] : o \in Range(ks)}

\* Mutant: a lone lineup is compared with itself.
Others_lone_is_self(t, ks, ss, k) ==
    IF Len(ks) > 1 THEN UNION {ss[o] : o \in Range(ks) \ {k}} ELSE ss[k]

\* others: the union of every other lineup's channel set.
Others(t, ks, ss, k) ==
    IF t = XmltvAnalyze
    THEN UNION {ss[o] : o \in Range(ks) \ {k}}
    ELSE IF Len(ks) > 1 THEN UNION {ss[x] : x \in Range(ks) \ {k}} ELSE {}

\* Mutant: list(...) instead of sorted(...).
Uniq_unsorted(it) == it

\* Mutant: sorted(..., reverse=True).
Uniq_descending(it) ==
    LET up == SortedBy(it, [cid \in Range(it) |-> cid])
    IN [i \in 1..Len(up) |-> up[Len(up) + 1 - i]]

\* uniq = sorted(sets[k] - others), the set being iterated in the order it.
Uniq(it) == SortedBy(it, [cid \in Range(it) |-> cid])

\* Mutant: the display names are not looked up.
UniqueRows_no_names(t, chans, uniq) == [i \in 1..Len(uniq) |-> <<uniq[i], <<>>>>]

\* The rows of unique_channels_<k>.csv.
UniqueRows(t, chans, uniq) ==
    IF t = XmltvAnalyze
    THEN [i \in 1..Len(uniq) |->
            LET cid == uniq[i]
                best_name == IF cid \in DOMAIN chans /\ chans[cid].names # <<>>
                             THEN chans[cid].names[1] ELSE <<>>
            IN <<cid, best_name>>]
    ELSE [i \in 1..Len(uniq) |->
            LET cid == uniq[i]
            IN <<cid, IF cid \in DOMAIN chans THEN chans[cid] ELSE <<>>>>]

NoCsv == [summary |-> <<>>, counts |-> <<>>, jaccard |-> <<>>, unique |-> <<>>]

anVars == <<tool, in_dir, argv, order, parsed, pc, keys, sets, idx, matrix_counts,
            matrix_jacc, csv, run, first_csv, an_rc>>

prVars == <<pr_tool, lineup_data, pr_pc, g_idx, m_idx, primary, pset, summary_rows,
            remove_txt, published>>

kbVars == <<kb_tool, xml_files, analysis_dir, base_lineup_id, kb_pc, kb_files, lineup_ids,
           kb_rc, kb_idx,
            report, kb_run, first_report>>

ldVars == <<ld_tool, records, rec_idx, ld_channels, ld_pc>>

ftVars == <<ft_tool, env_key, days, lineups, ft_idx, any_blocked, out_dir, device_dir, publish_dir, stdout, fetched, urls, exit_code, ft_log, ft_pc>>

glVars == <<gl_key, gl_raw, gl_pub, gl_audit, gl_stdout, gl_rc, gl_pc>>

mpVars == <<mp_channels_file, mp_map_file, mp_mapping, mp_channels, mp_idx, mp_iptv_out, mp_rep_out, mp_rc, mp_pc>>

vars == <<anVars, prVars, kbVars, ldVars, ftVars, glVars, mpVars>>

\* The variables of the other tools, which a run of an analyser leaves alone.
notAnVars == <<prVars, kbVars, ldVars, ftVars, glVars, mpVars>>

\* The variables of the other tools, which a run of a primary-baseline report leaves
\* alone.
notPrVars == <<anVars, kbVars, ldVars, ftVars, glVars, mpVars>>

\* The variables of the other tools, which a run of a base-lineup report leaves alone.
notKbVars == <<anVars, prVars, ldVars, ftVars, glVars, mpVars>>

\* No analyser runs.
AnIdle ==
    /\ tool = "none"
    /\ in_dir = <<>>
    /\ argv = <<>>
    /\ order = <<>>
    /\ parsed = <<>>
    /\ pc = "idle"
    /\ keys = <<>>
    /\ sets = <<>>
    /\ idx = 0
    /\ matrix_counts = <<>>
    /\ matrix_jacc = <<>>
    /\ csv = <<>>
    /\ run = 0
    /\ first_csv = <<>>
    /\ an_rc = <<>>

\* No primary-baseline report runs.
PrIdle ==
    /\ pr_tool = "none"
    /\ lineup_data = <<>>
    /\ pr_pc = "idle"
    /\ g_idx = 0
    /\ m_idx = 0
    /\ primary = <<>>
    /\ pset = {}
    /\ summary_rows = <<>>
    /\ remove_txt = <<>>
    /\ published = <<>>

\* No base-lineup report runs.
KbIdle ==
    /\ kb_tool = "none"
    /\ xml_files = <<>>
    /\ analysis_dir = <<>>
    /\ base_lineup_id = <<>>
    /\ kb_pc = "idle"
    /\ kb_files = <<>>
    /\ lineup_ids = <<>>
    /\ kb_rc = <<>>
    /\ kb_idx = 0
    /\ report = <<>>
    /\ kb_run = 0
    /\ first_report = <<>>

\* The variables of the other tools, which a call of a loader leaves alone.
notLdVars == <<anVars, prVars, kbVars, ftVars, glVars, mpVars>>

\* No loader call is followed.
LdIdle ==
    /\ ld_tool = "none"
    /\ records = <<>>
    /\ rec_idx = 0
    /\ ld_channels = <<>>
    /\ ld_pc = "idle"

\* The variables of the other tools, which a run of a fetcher leaves alone.
notFtVars == <<anVars, prVars, kbVars, ldVars, glVars, mpVars>>

\* No fetcher runs.
FtIdle ==
    /\ ft_tool = "none"
    /\ env_key = <<>>
    /\ days = 0
    /\ lineups = <<>>
    /\ ft_idx = 0
    /\ any_blocked = FALSE
    /\ out_dir = <<>>
    /\ device_dir = <<>>
    /\ publish_dir = <<>>
    /\ stdout = <<>>
    /\ fetched = <<>>
    /\ urls = <<>>
    /\ exit_code = <<>>
    /\ ft_log = <<>>
    /\ ft_pc = "idle"

\* The variables of the other tools, which a run of the lineups fetcher leaves alone.
notGlVars == <<anVars, prVars, kbVars, ldVars, ftVars, mpVars>>

\* The lineups fetcher does not run.
GlIdle ==
    /\ gl_key = <<>>
    /\ gl_raw = <<>>
    /\ gl_pub = <<>>
    /\ gl_audit = <<>>
    /\ gl_stdout = <<>>
    /\ gl_rc = <<>>
    /\ gl_pc = "idle"

\* The variables of the other tools, which a run of the mapping tool leaves alone.
notMpVars == <<anVars, prVars, kbVars, ldVars, ftVars, glVars>>

\* The mapping tool does not run.
MpIdle ==
    /\ mp_channels_file = <<>>
    /\ mp_map_file = <<>>
    /\ mp_mapping = <<>>
    /\ mp_channels = <<>>
    /\ mp_idx = 0
    /\ mp_iptv_out = <<>>
    /\ mp_rep_out = <<>>
    /\ mp_rc = <<>>
    /\ mp_pc = "idle"

\* The names of the input folder: "xmltv-10.xml", "xmltv-9.xml" and "XMLTV-09.XML".
InputNames == {<<120, 109, 108, 116, 118, 45, 49, 48, 46, 120, 109, 108>>,
               <<120, 109, 108, 116, 118, 45, 57, 46, 120, 109, 108>>,
               <<88, 77, 76, 84, 86, 45, 48, 57, 46, 88, 77, 76>>}

\* A process starts: nothing is read or written yet.
AnStart ==
    /\ pc = "main"
    /\ order = <<>>
    /\ parsed = <<>>
    /\ keys = <<>>
    /\ sets = <<>>
    /\ idx = 0
    /\ matrix_counts = <<>>
    /\ matrix_jacc = <<>>
    /\ csv = NoCsv
    /\ an_rc = <<>>

\* A tool is run with --input_dir and --out_dir on a folder holding any of the files.
AnInit ==
    /\ tool \in Tools
    /\ \E S \in SUBSET InputNames : in_dir \in [S -> SUBSET ChannelIds]
    /\ argv = <<>>
    /\ AnStart
    /\ run = 1
    /\ first_csv = NoCsv

\* main up to the first output: ap.parse_args(argv), which ends the process with
\* status 2 ("unrecognized arguments") when an argument is left over; the listing of
\* the folder, without a lineup file "return 2" in xmltv_analyze and die(...) with
\* SystemExit(1) in analyze_channels_overlap; the parsing of the files into the dict.
Main ==
    /\ pc = "main"
    /\ LET files == InputFiles(tool, DOMAIN in_dir)
           ord == FileOrder(tool, files)
       IN IF argv # <<>>
          THEN /\ an_rc' = <<2>>
               /\ pc' = "exit"
               /\ UNCHANGED <<order, parsed>>
          ELSE IF files = <<>>
          THEN /\ an_rc' = <<IF tool = XmltvAnalyze THEN 2 ELSE 1>>
               /\ pc' = "exit"
               /\ UNCHANGED <<order, parsed>>
          ELSE /\ order' = ord
               /\ parsed' = [lid \in Range(ord) |->
                                Load(tool, lid, in_dir[LastFile(tool, files, lid)])]
               /\ pc' = "start"
               /\ an_rc' = an_rc
    /\ UNCHANGED <<tool, in_dir, argv, keys, sets, idx, matrix_counts, matrix_jacc, csv,
                   run, first_csv>>
    /\ UNCHANGED notAnVars

\* keys = sorted(...); sets = {...}; summary_channels_by_lineup.csv
Summary ==
    /\ pc = "start"
    /\ LET ks == SortKeys(tool, order)
           ss == [k \in Range(ks) |-> DOMAIN parsed[k]]
           rows == [i \in 1..Len(ks) |-> <<ks[i], Str(Cardinality(ss[ks[i]]))>>]
       IN /\ keys' = ks
          /\ sets' = ss
          /\ csv' = [csv EXCEPT !.summary = <<<<LINEUP_ID, CHANNEL_COUNT>>>> \o rows]
    /\ pc' = "matrix"
    /\ idx' = 1
    /\ UNCHANGED <<tool, in_dir, argv, order, parsed, matrix_counts, matrix_jacc, run,
                   first_csv, an_rc>>
    /\ UNCHANGED notAnVars

\* for a in keys: row_c, row_j
MatrixRow ==
    /\ pc = "matrix"
    /\ idx <= Len(keys)
    /\ matrix_counts' = Append(matrix_counts, CountRow(tool, keys, sets, keys[idx]))
    /\ matrix_jacc' = Append(matrix_jacc, JaccRow(tool, keys, sets, keys[idx]))
    /\ idx' = idx + 1
    /\ UNCHANGED <<tool, in_dir, argv, order, parsed, pc, keys, sets, csv, run, first_csv,
                   an_rc>>
    /\ UNCHANGED notAnVars

\* overlap_counts_matrix.csv, overlap_jaccard_matrix.csv
WriteMatrices ==
    /\ pc = "matrix"
    /\ idx > Len(keys)
    /\ csv' = [csv EXCEPT !.counts = <<<<LINEUP_ID>> \o keys>> \o matrix_counts,
                          !.jaccard = <<<<LINEUP_ID>> \o keys>> \o matrix_jacc]
    /\ pc' = "unique"
    /\ idx' = 1
    /\ UNCHANGED <<tool, in_dir, argv, order, parsed, keys, sets, matrix_counts,
                   matrix_jacc, run, first_csv, an_rc>>
    /\ UNCHANGED notAnVars

\* for k in keys: unique_channels_<k>.csv
UniqueFile ==
    /\ pc = "unique"
    /\ idx <= Len(keys)
    /\ LET k == keys[idx]
           others == Others(tool, keys, sets, k)
       IN \E it \in Iterations(sets[k] \ others) :
             csv' = [csv EXCEPT !.unique =
                        Append(@, <<k, <<<<CHANNEL_ID, DISPLAY_NAME>>>> \o
                                       UniqueRows(tool, parsed[k], Uniq(it))>>)]
    /\ idx' = idx + 1
    /\ UNCHANGED <<tool, in_dir, argv, order, parsed, pc, keys, sets, matrix_counts,
                   matrix_jacc, run, first_csv, an_rc>>
    /\ UNCHANGED notAnVars

\* the console report and "return 0"
Return ==
    /\ pc = "unique"
    /\ idx > Len(keys)
    /\ pc' = "done"
    /\ an_rc' = <<0>>
    /\ UNCHANGED <<tool, in_dir, argv, order, parsed, keys, sets, idx, matrix_counts,
                   matrix_jacc, csv, run, first_csv>>
    /\ UNCHANGED notAnVars

\* The tool is run again on the same folder, with the same arguments.
Rerun ==
    /\ pc = "done"
    /\ run = 1
    /\ run' = 2
    /\ first_csv' = csv
    /\ pc' = "main"
    /\ order' = <<>>
    /\ parsed' = <<>>
    /\ an_rc' = <<>>
    /\ keys' = <<>>
    /\ sets' = <<>>
    /\ idx' = 0
    /\ matrix_counts' = <<>>
    /\ matrix_jacc' = <<>>
    /\ csv' = NoCsv
    /\ UNCHANGED <<tool, in_dir, argv>>
    /\ UNCHANGED notAnVars

AnNext == Main \/ Summary \/ MatrixRow \/ WriteMatrices \/ UniqueFile \/ Return \/ Rerun

Init == AnInit /\ PrIdle /\ KbIdle /\ LdIdle /\ FtIdle /\ GlIdle /\ MpIdle

Next == AnNext

Spec == Init /\ [][Next]_vars

(***************************************************************************)
(* The analysers on lineup ids of different widths and with leading zeros. *)
(***************************************************************************)
\* Lineup ids as the file-name patterns admit them (\d+): "9", "09", "10", "08",
\* "010" and "11".
WideLineupIds ==
    {<<57>>, <<48, 57>>, <<49, 48>>, <<48, 56>>, <<48, 49, 48>>, <<49, 49>>}

\* Other names the patterns admit: "XMLTV-9.XML", "xmltv-9.xml" with a line feed
\* behind it, and "xmltv-9-channels.xml", which analyze_channels_overlap takes.
OtherNames == {<<88, 77, 76, 84, 86, 45, 57, 46, 88, 77, 76>>,
               <<120, 109, 108, 116, 118, 45, 57, 46, 120, 109, 108, 10>>,
               <<120, 109, 108, 116, 118, 45, 57, 45, 99, 104, 97, 110, 110, 101, 108, 115,
                 46, 120, 109, 108>>}

\* A run over any of these files; a file named xmltv-<id>.xml holds the one channel
\* "1", the others hold the channels "1" and "2".
AnInitOrder ==
    /\ tool \in Tools
    /\ \E S \in SUBSET WideLineupIds, O \in SUBSET OtherNames :
          in_dir = [f \in {XMLTV_DASH \o w \o DOT_XML : w \in S} \cup O |->
                       IF f \in O THEN {Str(1), Str(2)} ELSE {Str(1)}]
    /\ argv = <<>>
    /\ AnStart
    /\ run = 1
    /\ first_csv = NoCsv

InitOrder == AnInitOrder /\ PrIdle /\ KbIdle /\ LdIdle /\ FtIdle /\ GlIdle /\ MpIdle

SpecOrder == InitOrder /\ [][Next]_vars

(***************************************************************************)
(* The analysers run by a caller who chooses a number of decimals.  The    *)
(* interface of a tool is its command line; a caller with a choice gives   *)
(* it as "--precision <digits>" behind the two folders.                    *)
(***************************************************************************)
\* "--precision"
PRECISION_OPTION == <<45, 45, 112, 114, 101, 99, 105, 115, 105, 111, 110>>

\* The numbers of decimals a caller may choose.
ChoosablePrecisions == 2..6

\* A run over the files "xmltv-9.xml" and "xmltv-10.xml", for a caller who chooses a
\* precision or none.
AnInitPrecision ==
    /\ tool \in Tools
    /\ argv \in {<<>>} \cup {<<PRECISION_OPTION, Str(p)>> : p \in ChoosablePrecisions}
    /\ in_dir \in [{<<120, 109, 108, 116, 118, 45, 57, 46, 120, 109, 108>>,
                    <<120, 109, 108, 116, 118, 45, 49, 48, 46, 120, 109, 108>>}
                      -> SUBSET ChannelIds]
    /\ AnStart
    /\ run = 1
    /\ first_csv = NoCsv

InitPrecision == AnInitPrecision /\ PrIdle /\ KbIdle /\ LdIdle /\ FtIdle /\ GlIdle /\ MpIdle

SpecPrecision == InitPrecision /\ [][Next]_vars

(***************************************************************************)
(* The analysers on the two catalogs A = {1, 2, 3} and B = {2, 3, 4}.      *)
(***************************************************************************)
ScenarioA == {Str(1), Str(2), Str(3)}
ScenarioB == {Str(2), Str(3), Str(4)}

\* A run over two files, one holding A and the other B, under any two names with
\* different lineup ids.
AnInitScenario ==
    /\ tool \in Tools
    /\ \E f, g \in {XMLTV_DASH \o w \o DOT_XML : w \in WideLineupIds} \cup OtherNames :
          /\ XmltvName(f) # <<>>
          /\ XmltvName(g) # <<>>
          /\ XmltvName(f) # XmltvName(g)
          /\ in_dir = [x \in {f, g} |-> IF x = f THEN ScenarioA ELSE ScenarioB]
    /\ argv = <<>>
    /\ AnStart
    /\ run = 1
    /\ first_csv = NoCsv

InitScenario == AnInitScenario /\ PrIdle /\ KbIdle /\ LdIdle /\ FtIdle /\ GlIdle /\ MpIdle

SpecScenario == InitScenario /\ [][Next]_vars

(***************************************************************************)
(* The primary-baseline reports: tools/channels_overlap_report.py and      *)
(* tools/build_channel_overlap_remove_lists.py.                            *)
(***************************************************************************)
OverlapReport == "channels_overlap_report"
RemoveLists == "build_channel_overlap_remove_lists"
PrTools == {OverlapReport, RemoveLists}

\* channels_overlap_report.LINEUPS: (lineup id, label)
LINEUPS ==
    << <<<<49, 48, 50, 55, 48>>,
         <<82, 111, 103, 101, 114, 115, 95, 84, 111, 114, 111, 110, 116, 111, 95, 79, 78, 91, 67, 65, 93>>>>,
       <<<<49, 48, 50, 54, 57>>,
         <<84, 101, 108, 117, 115, 95, 79, 112, 116, 105, 107, 95, 86, 97, 110, 99, 111, 117, 118, 101, 114, 95, 66, 67, 91, 67, 65, 93>>>>,
       <<<<49, 48, 50, 55, 49>>,
         <<88, 102, 105, 110, 105, 116, 121, 95, 67, 104, 105, 99, 97, 103, 111, 95, 73, 76, 91, 85, 83, 93>>>>,
       <<<<49, 48, 50, 55, 51>>,
         <<86, 101, 114, 105, 122, 111, 110, 95, 70, 73, 79, 83, 95, 78, 101, 119, 89, 111, 114, 107, 95, 78, 89, 91, 85, 83, 93>>>>,
       <<<<49, 48, 50, 55, 50>>,
         <<66, 114, 111, 97, 100, 99, 97, 115, 116, 95, 76, 111, 115, 65, 110, 103, 101, 108, 101, 115, 95, 67, 65, 91, 85, 83, 93>>>> >>

\* build_channel_overlap_remove_lists.FILES: (lineup id, label, group)
FILES ==
    << <<<<49, 48, 50, 55, 48>>,
         <<82, 111, 103, 101, 114, 115, 95, 84, 111, 114, 111, 110, 116, 111, 95, 79, 78, 95, 67, 65>>,
         <<67, 65>>>>,
       <<<<49, 48, 50, 54, 57>>,
         <<84, 101, 108, 117, 115, 95, 79, 112, 116, 105, 107, 95, 86, 97, 110, 99, 111, 117, 118, 101, 114, 95, 66, 67, 95, 67, 65>>,
         <<67, 65>>>>,
       <<<<49, 48, 50, 55, 49>>,
         <<88, 102, 105, 110, 105, 116, 121, 95, 67, 104, 105, 99, 97, 103, 111, 95, 73, 76, 95, 85, 83>>,
         <<85, 83>>>>,
       <<<<49, 48, 50, 55, 51>>,
         <<86, 101, 114, 105, 122, 111, 110, 95, 70, 73, 79, 83, 95, 78, 101, 119, 89, 111, 114, 107, 95, 78, 89, 95, 85, 83>>,
         <<85, 83>>>>,
       <<<<49, 48, 50, 55, 50>>,
         <<66, 114, 111, 97, 100, 99, 97, 115, 116, 95, 76, 111, 115, 65, 110, 103, 101, 108, 101, 115, 95, 67, 65, 95, 85, 83>>,
         <<85, 83>>>> >>

CA == <<67, 65>>
US == <<85, 83>>
OTHER_GROUP == <<79, 84, 72, 69, 82>>
TAG_CA == <<91, 67, 65, 93>>
TAG_US == <<91, 85, 83, 93>>

\* Mutant: only the first group is rendered.
GROUPS_ca_only == <<CA>>

\* The groups rendered, in order: for g in ["CA", "US"] / render("CA"), render("US").
GROUPS == <<CA, US>>

\* sub in s
Contains(sub, s) ==
    \E i \in 0..(Len(s) - Len(sub)) : SubSeq(s, i + 1, i + Len(sub)) = sub

\* channels_overlap_report.group_key
group_key(label) ==
    IF Contains(TAG_CA, label) THEN CA
    ELSE IF Contains(TAG_US, label) THEN US
    ELSE OTHER_GROUP

\* by_group[g] / ca_members, us_members: the (lineup id, label) pairs of a group in
\* configured order.
MembersOf(t, g) ==
    IF t = OverlapReport
    THEN LET InGroup(x) == group_key(x[2]) = g
         IN SelectSeq(LINEUPS, InGroup)
    ELSE LET InGroup(x) == x[3] = g
             picked == SelectSeq(FILES, InGroup)
         IN [i \in 1..Len(picked) |-> <<picked[i][1], picked[i][2]>>]

\* by_group, built once before the groups are rendered.
by_group == [t \in PrTools |-> [g \in {CA, US, OTHER_GROUP} |-> MembersOf(t, g)]]

Members(t, g) == by_group[t][g]

AllLineups(t) ==
    IF t = OverlapReport THEN Range(LINEUPS)
    ELSE {<<FILES[i][1], FILES[i][2]>> : i \in 1..Len(FILES)}

GroupChannelIds == {Str(n) : n \in 1..GroupChannels}

\* The <display-name> values a catalog file carries for a channel id.
N12 == <<49, 50>>
N5_1 == <<53, 46, 49>>
RawDisplayNames(cid) ==
    CASE cid = Str(1) -> <<CNN, N12>>
      [] cid = Str(2) -> <<N5_1, ESPN>>
      [] cid = Str(3) -> <<HBO>>
      [] OTHER -> <<>>

\* RE_CHNUM = ^\d{1,4}(\.\d{1,3})?$ matches s
IsChNum(s) ==
    LET dots == {i \in 1..Len(s) : s[i] = 46}
        dot == IF dots = {} THEN Len(s) + 1 ELSE CHOOSE i \in dots : \A j \in dots : i <= j
        whole == SubSeq(s, 1, dot - 1)
        frac == SubSeq(s, dot + 1, Len(s))
    IN /\ IsDigit(whole) /\ Len(whole) <= 4
       /\ dots # {} => (IsDigit(frac) /\ Len(frac) <= 3)

\* Mutant: the last display name that matches is taken.
FirstChNum_last(dns) ==
    LET hits == {i \in 1..Len(dns) : IsChNum(dns[i])}
    IN IF hits = {} THEN <<>> ELSE dns[CHOOSE i \in hits : \A j \in hits : i >= j]

\* chnum: the first display name that matches RE_CHNUM, "" if none does.
FirstChNum(dns) ==
    LET hits == {i \in 1..Len(dns) : IsChNum(dns[i])}
    IN IF hits = {} THEN <<>> ELSE dns[CHOOSE i \in hits : \A j \in hits : i <= j]

\* parse_channels of the two reports, on a file holding the channels S:
\* channel_id -> {display_name, channel_number}.
parse_channels_meta(S) ==
    [cid \in S |->
        LET dns == RawDisplayNames(cid)
        IN [display_name |-> IF dns # <<>> THEN dns[1] ELSE <<>>,
            channel_number |-> FirstChNum(dns)]]

\* Mutant: a later lineup of equal count replaces the best so far (>= for >).
RECURSIVE MaxByCount_last(_, _)
MaxByCount_last(members, data) ==
    IF Len(members) = 1 THEN members[1]
    ELSE LET best == MaxByCount_last(SubSeq(members, 1, Len(members) - 1), data)
             x == members[Len(members)]
         IN IF Cardinality(DOMAIN data[x]) >= Cardinality(DOMAIN data[best])
            THEN x ELSE best

\* max(members, key=lambda x: len(lineup_data[x])): the scan keeps the best so far
\* and replaces it only by a strictly greater one.
RECURSIVE MaxByCount(_, _)
MaxByCount(members, data) ==
    IF Len(members) = 1 THEN members[1]
    ELSE LET best == MaxByCount(SubSeq(members, 1, Len(members) - 1), data)
             x == members[Len(members)]
         IN IF Cardinality(DOMAIN data[x]) > Cardinality(DOMAIN data[best])
            THEN x ELSE best

\* Mutant: the lineup id alone is compared with the (lineup id, label) pair.
IsPrimary_lid_only(x, p) == x[1] = p

\* (lid, label) == primary
IsPrimary(x, p) == x = p

\* sorted(list(S)) of channel ids; the order of ids is total, so the order in which
\* the set is iterated does not show.
SortedIds(S) == SortedBy(CHOOSE q \in Iterations(S) : TRUE, [cid \in S |-> cid])

\* The report lines of the channel ids: channel_number, display_name, [cid].
Entries(chans, ids) ==
    [i \in 1..Len(ids) |->
        <<chans[ids[i]].channel_number, chans[ids[i]].display_name, ids[i]>>]

\* Mutant: KEEP lists the whole lineup.
keep_ids_all(cset, p) == SortedIds(cset)

\* remove_ids = sorted(list(cset & pset)); keep_ids = sorted(list(cset - pset))
remove_ids(cset, p) == SortedIds(cset \cap p)
keep_ids(cset, p) == SortedIds(cset \ p)

PrInit ==
    /\ pr_tool \in PrTools
    /\ IF pr_tool = OverlapReport
       THEN \E content \in [AllLineups(pr_tool) -> SUBSET GroupChannelIds] :
               lineup_data = [x \in AllLineups(pr_tool) |-> parse_channels_meta(content[x])]
       ELSE lineup_data = <<>>
    /\ pr_pc = "group"
    /\ g_idx = 1
    /\ m_idx = 0
    /\ primary = <<>>
    /\ pset = {}
    /\ summary_rows = <<>>
    /\ remove_txt = <<>>
    /\ published = <<>>

SummaryRow(g, x, count, note) ==
    [group |-> g, lineup_label |-> x[2], lineup_id |-> x[1], channel_count |-> Str(count),
     note |-> note]

\* The head of one group: build_group / primary = max(...), pset, the PRIMARY lines.
SelectPrimary ==
    /\ pr_pc = "group"
    /\ g_idx <= Len(GROUPS)
    /\ LET g == GROUPS[g_idx]
           members == Members(pr_tool, g)
       IN /\ IF pr_tool = RemoveLists
             THEN \E content \in [Range(members) -> SUBSET GroupChannelIds] :
                     lineup_data' = [x \in Range(members) |->
                                        parse_channels_meta(content[x])]
             ELSE UNCHANGED lineup_data
          /\ primary' = MaxByCount(members, lineup_data')
          /\ pset' = DOMAIN lineup_data'[primary']
          /\ summary_rows' =
                IF pr_tool = OverlapReport
                THEN Append(summary_rows,
                            SummaryRow(g, primary', Cardinality(pset'), "PRIMARY(max channels)"))
                ELSE summary_rows
          /\ remove_txt' = Append(remove_txt,
                                  [group |-> g, primary |-> primary',
                                   count |-> Str(Cardinality(pset')), sections |-> <<>>])
    /\ m_idx' = 1
    /\ pr_pc' = "member"
    /\ UNCHANGED <<pr_tool, g_idx, published>>
    /\ UNCHANGED notPrVars

\* One pass of "for lid, label in members".
Member ==
    /\ pr_pc = "member"
    /\ m_idx <= Len(Members(pr_tool, GROUPS[g_idx]))
    /\ LET g == GROUPS[g_idx]
           x == Members(pr_tool, g)[m_idx]
           cset == DOMAIN lineup_data[x]
           note == IF pr_tool = RemoveLists /\ x = primary THEN "PRIMARY" ELSE ""
       IN /\ summary_rows' = Append(summary_rows, SummaryRow(g, x, Cardinality(cset), note))
          /\ IF IsPrimary(x, primary)
             THEN UNCHANGED remove_txt
             ELSE remove_txt' =
                     [remove_txt EXCEPT ![Len(remove_txt)].sections =
                         Append(@, [lineup |-> x,
                                    remove |-> Entries(lineup_data[x], remove_ids(cset, pset)),
                                    keep |-> Entries(lineup_data[x], keep_ids(cset, pset))])]
    /\ m_idx' = m_idx + 1
    /\ UNCHANGED <<pr_tool, lineup_data, pr_pc, g_idx, primary, pset, published>>
    /\ UNCHANGED notPrVars

\* The end of one group's loop.
EndGroup ==
    /\ pr_pc = "member"
    /\ m_idx > Len(Members(pr_tool, GROUPS[g_idx]))
    /\ g_idx' = g_idx + 1
    /\ pr_pc' = "group"
    /\ UNCHANGED <<pr_tool, lineup_data, m_idx, primary, pset, summary_rows, remove_txt,
                   published>>
    /\ UNCHANGED notPrVars

\* write_csv / write_text of the summary and the remove lists, and "return 0".
WriteReports ==
    /\ pr_pc = "group"
    /\ g_idx > Len(GROUPS)
    /\ published' = [summary |-> summary_rows, remove_lists |-> remove_txt]
    /\ pr_pc' = "done"
    /\ UNCHANGED <<pr_tool, lineup_data, g_idx, m_idx, primary, pset, summary_rows,
                   remove_txt>>
    /\ UNCHANGED notPrVars

PrNext == SelectPrimary \/ Member \/ EndGroup \/ WriteReports

InitPrimary == PrInit /\ AnIdle /\ KbIdle /\ LdIdle /\ FtIdle /\ GlIdle /\ MpIdle

SpecPrimary == InitPrimary /\ [][PrNext]_vars

(***************************************************************************)
(* The base-lineup keep/remove reports: build_keep_remove_report_v0_2_0,    *)
(* archive/build_keep_remove_report and                                    *)
(* archive/build_keep_remove_report_from_downloads.                        *)
(***************************************************************************)
KeepRemoveReport == "build_keep_remove_report_v0_2_0"
ArchiveReport == "build_keep_remove_report"
FromDownloads == "build_keep_remove_report_from_downloads"
KbTools == {KeepRemoveReport, ArchiveReport, FromDownloads}

BASE_LINEUP_ID == <<57, 51, 51, 48>>

\* A configured base lineup id that is the id of no lineup: no file name yields an
\* empty lineup id.
NoBaseLineup == <<>>

\* The lineup ids of the catalog files a run can find: "9330" and "10000".
KbLineupPool == {BASE_LINEUP_ID, <<49, 48, 48, 48, 48>>}

\* The values of the channel_id column of a unique_channels file: channel ids and
\* the blank.
ReportChannelIds == {Str(n) : n \in 1..ReportChannels}

UniqueColumn == ReportChannelIds \cup {<<>>}

\* The digits a string starts with.
RECURSIVE LeadingDigits(_)
LeadingDigits(s) ==
    IF s = <<>> \/ ~IsDigitChar(s[1]) THEN <<>>
    ELSE <<s[1]>> \o LeadingDigits(Tail(s))

\* channel_num(cid): the leading integer of the channel id, 999999999 if none.
channel_num(cid) ==
    IF LeadingDigits(cid) # <<>> THEN IntOf(LeadingDigits(cid)) ELSE 999999999

\* str.lower() / str.casefold() on ASCII text.
Lower(s) == [i \in 1..Len(s) |-> IF s[i] >= 65 /\ s[i] <= 90 THEN s[i] + 32 ELSE s[i]]

\* parse_channels of the three reports, on a file holding the channels S:
\* channel_id -> the first non-empty display name, "" if none.
parse_channels_name(S) ==
    [cid \in S |->
        LET dns == RawDisplayNames(cid)
            filled == {i \in 1..Len(dns) : dns[i] # <<>>}
        IN IF filled = {} THEN <<>>
           ELSE dns[CHOOSE i \in filled : \A j \in filled : i <= j]]

\* load_unique_ids(analysis_dir, lineup_id): the non-blank channel ids of the file,
\* the empty set if the file is missing.
load_unique_ids(dir, lid) ==
    IF lid \notin DOMAIN dir THEN {}
    ELSE {cid \in dir[lid] : cid # <<>>}

\* channels.get(cid) or ""
NameOf(channels, cid) == IF cid \in DOMAIN channels THEN channels[cid] ELSE <<>>

\* sort_key(cid, channels) == (channel_num(cid), name.lower(), cid)
sort_key(cid, channels) ==
    <<channel_num(cid)>> \o Lower(NameOf(channels, cid)) \o <<0>> \o cid

\* sort_key_name(cid, name_map) == (n.casefold() if n else "~", cid.casefold())
sort_key_name(cid, name_map) ==
    LET n == NameOf(name_map, cid)
    IN (IF n # <<>> THEN Lower(n) ELSE <<126>>) \o <<0>> \o Lower(cid)

\* channels.get(x, x): the name of a channel of the catalog as it stands, the id
\* itself for an id the catalog does not hold.
NameOrId(channels, x) == IF x \in DOMAIN channels THEN channels[x] ELSE x

\* The key each report sorts its KEEP and REMOVE lists by.
KbSortKey(t, cid, channels) ==
    IF t = KeepRemoveReport THEN sort_key(cid, channels)
    ELSE IF t = ArchiveReport THEN NameOrId(channels, cid)
    ELSE sort_key_name(cid, channels)

\* sorted(ids, key=...), ids being iterated in the order it: ids with equal keys stay
\* in that order.
KbSorted(t, it, channels) ==
    SortedBy(it, [cid \in Range(it) |-> KbSortKey(t, cid, channels)])

\* The report lines of the ids: "{num:<6} - {name} [{cid}]", "  - {name} [{cid}]" or
\* fmt_row(cid, name).
KbLines(t, ids, channels) ==
    [i \in 1..Len(ids) |->
        IF t = KeepRemoveReport
        THEN <<channel_num(ids[i]), NameOf(channels, ids[i]), ids[i]>>
        ELSE <<NameOf(channels, ids[i]), ids[i]>>]

\* Path.glob of a pattern pre + "*" + suf matches the name f; the letters of the
\* pattern stand for themselves (the tools run where file names keep their case).
GlobMatch(f, pre, suf) ==
    /\ Len(f) >= Len(pre) + Len(suf)
    /\ SubSeq(f, 1, Len(pre)) = pre
    /\ SubSeq(f, Len(f) - Len(suf) + 1, Len(f)) = suf

\* Path.stem: the name without its last suffix.
Stem(f) ==
    LET dots == {i \in 2..(Len(f) - 1) : f[i] = 46}
    IN IF dots = {} THEN f
       ELSE SubSeq(f, 1, (CHOOSE i \in dots : \A j \in dots : j <= i) - 1)

\* RE_CH_FILE.match(p.name): group 1 of ^xmltv-(\d+)-channels\.xml$ with
\* re.IGNORECASE, <<>> for a name that does not match.
RE_CH_FILE(f) == TheOne({DigitsIn(body, DASH_CHANNELS) : body \in BeforeEnd(f)} \ {<<>>})

\* The lineup id a report reads from the name of a catalog file: m.group(1) if m else
\* xml.stem, or group 1 of RE_CH_FILE.
KbLineupId(t, f) ==
    IF t = FromDownloads THEN RE_CH_FILE(f)
    ELSE IF SearchXmltv(f) # <<>> THEN SearchXmltv(f) ELSE Stem(f)

\* The catalog files that get a section, in report order.  From downloads: the
\* folder is taken when a name matches the glob xmltv-*-channels.xml, its files are
\* those RE_CH_FILE matches, lineup_channels is filled in file-name order, a later
\* file of a lineup id replacing an earlier one, and the ids are sorted by
\* int(x) if x.isdigit() else x.  Otherwise sorted(sample_dir.glob("xmltv-*.xml")).
KbFiles(t, names) ==
    IF t = FromDownloads
    THEN IF \E f \in names : GlobMatch(f, XMLTV_DASH, DASH_CHANNELS \o DOT_XML)
         THEN LET files == SortedNames({f \in names : RE_CH_FILE(f) # <<>>})
                  at(lid) == {i \in 1..Len(files) : RE_CH_FILE(files[i]) = lid}
                  ids == DictKeys([i \in 1..Len(files) |-> RE_CH_FILE(files[i])])
                  lids == SortedBy(ids, [x \in Range(ids) |-> IntIfDigit(x)])
              IN [k \in 1..Len(lids) |->
                     files[CHOOSE i \in at(lids[k]) : \A j \in at(lids[k]) : j <= i]]
         ELSE <<>>
    ELSE SortedNames({f \in names : GlobMatch(f, XMLTV_DASH, DOT_XML)})

\* die(...): the exit status of a run that finds no catalog file.
DieCode(t) == IF t = KeepRemoveReport THEN 2 ELSE 1

\* Mutant: no lineup is the base lineup.
IsBase_never(lid, base) == FALSE

\* lineup_id == BASE_LINEUP_ID
IsBase(lid, base) == lid = base

\* KEEP (BASE LINEUP): ALL (n) / REMOVE: NONE
BaseSection(lid, all_ids) ==
    [lineup |-> lid, total |-> Cardinality(all_ids),
     keep_all |-> Cardinality(all_ids), remove_none |-> TRUE]

\* KEEP (UNIQUE ONLY) / REMOVE (DUPLICATES)
SplitSection(lid, all_ids, keep, remove) ==
    [lineup |-> lid, total |-> Cardinality(all_ids), keep |-> keep, remove |-> remove]

\* The names of the catalog folder of a report.  For the reports over the sample
\* folder "xmltv-9330.xml", "xmltv-10000.xml", "xmltv-0XMLTV-9330.xml" and
\* "xmltv-10000-channels.xml"; from downloads "xmltv-9330-channels.xml",
\* "xmltv-10000-channels.xml", "XMLTV-10000-CHANNELS.XML" and "xmltv-9330.xml".
KbNames(t) ==
    IF t = FromDownloads
    THEN {<<120, 109, 108, 116, 118, 45, 57, 51, 51, 48, 45, 99, 104, 97, 110, 110,
            101, 108, 115, 46, 120, 109, 108>>,
          <<120, 109, 108, 116, 118, 45, 49, 48, 48, 48, 48, 45, 99, 104, 97, 110,
            110, 101, 108, 115, 46, 120, 109, 108>>,
          <<88, 77, 76, 84, 86, 45, 49, 48, 48, 48, 48, 45, 67, 72, 65, 78, 78, 69,
            76, 83, 46, 88, 77, 76>>,
          <<120, 109, 108, 116, 118, 45, 57, 51, 51, 48, 46, 120, 109, 108>>}
    ELSE {<<120, 109, 108, 116, 118, 45, 57, 51, 51, 48, 46, 120, 109, 108>>,
          <<120, 109, 108, 116, 118, 45, 49, 48, 48, 48, 48, 46, 120, 109, 108>>,
          <<120, 109, 108, 116, 118, 45, 48, 88, 77, 76, 84, 86, 45, 57, 51, 51, 48,
            46, 120, 109, 108>>,
          <<120, 109, 108, 116, 118, 45, 49, 48, 48, 48, 48, 45, 99, 104, 97, 110,
            110, 101, 108, 115, 46, 120, 109, 108>>}

\* The process starts: nothing is listed or written yet.
KbStart ==
    /\ kb_pc = "start"
    /\ kb_files = <<>>
    /\ lineup_ids = <<>>
    /\ kb_rc = <<>>
    /\ kb_idx = 0
    /\ report = <<>>

\* A report is run on a catalog folder of at most two files and an analysis folder
\* with the unique_channels files of any of the lineups "9330" and "10000".
KbInit ==
    /\ kb_tool \in KbTools
    /\ \E f, g \in KbNames(kb_tool) : \E S \in SUBSET {f, g} :
          xml_files \in [S -> SUBSET ReportChannelIds]
    /\ \E U \in SUBSET KbLineupPool : analysis_dir \in [U -> SUBSET UniqueColumn]
    /\ base_lineup_id = BASE_LINEUP_ID
    /\ KbStart
    /\ kb_run = 1
    /\ first_report = <<>>

\* find_latest_analysis, find_latest_with_glob(analysis_root, "unique_channels_*.csv"):
\* a folder of out/analysis that holds a unique_channels file is found.
AnalysisFound(dir) == DOMAIN dir # {}

\* The files are listed (and, from downloads, all parsed), the analysis folder is
\* looked for and the files are put in report order; without a catalog file or
\* without an analysis folder that holds a unique_channels file the tool dies.
ListFiles ==
    /\ kb_pc = "start"
    /\ LET files == KbFiles(kb_tool, DOMAIN xml_files)
       IN IF files = <<>> \/ ~AnalysisFound(analysis_dir)
          THEN /\ kb_rc' = <<DieCode(kb_tool)>>
               /\ kb_pc' = "exit"
               /\ UNCHANGED <<kb_files, lineup_ids, kb_idx>>
          ELSE /\ kb_files' = files
               /\ lineup_ids' = [i \in 1..Len(files) |-> KbLineupId(kb_tool, files[i])]
               /\ kb_idx' = 1
               /\ kb_pc' = "loop"
               /\ kb_rc' = kb_rc
    /\ UNCHANGED <<kb_tool, xml_files, analysis_dir, base_lineup_id, report, kb_run,
                   first_report>>
    /\ UNCHANGED notKbVars

\* One pass of the loop over the lineups: the section of one lineup is written.
ReportLineup ==
    /\ kb_pc = "loop"
    /\ kb_idx <= Len(lineup_ids)
    /\ LET lid == lineup_ids[kb_idx]
           channels == parse_channels_name(xml_files[kb_files[kb_idx]])
           all_ids == DOMAIN channels
       IN IF IsBase(lid, base_lineup_id)
          THEN report' = Append(report, BaseSection(lid, all_ids))
          ELSE LET keep_set == load_unique_ids(analysis_dir, lid)
               IN \E ki \in Iterations(keep_set), ri \in Iterations(all_ids \ keep_set) :
                     LET keep_sorted == KbSorted(kb_tool, ki, channels)
                         remove_sorted == KbSorted(kb_tool, ri, channels)
                     IN report' = Append(report,
                            SplitSection(lid, all_ids,
                                         KbLines(kb_tool, keep_sorted, channels),
                                         KbLines(kb_tool, remove_sorted, channels)))
    /\ kb_idx' = kb_idx + 1
    /\ UNCHANGED <<kb_tool, xml_files, analysis_dir, base_lineup_id, kb_pc, kb_files,
                   lineup_ids, kb_rc, kb_run, first_report>>
    /\ UNCHANGED notKbVars

\* The loop has ended, the report file is closed and main returns.
CloseReport ==
    /\ kb_pc = "loop"
    /\ kb_idx > Len(lineup_ids)
    /\ kb_pc' = "done"
    /\ kb_rc' = <<0>>
    /\ UNCHANGED <<kb_tool, xml_files, analysis_dir, base_lineup_id, kb_files, lineup_ids,
                   kb_idx, report, kb_run, first_report>>
    /\ UNCHANGED notKbVars

\* The tool is run again on the same folders with BASE_LINEUP_ID set to the id of no
\* lineup; the report of the first run is kept for comparison.
RunWithoutBase ==
    /\ kb_pc = "done"
    /\ kb_run = 1
    /\ kb_run' = 2
    /\ first_report' = report
    /\ base_lineup_id' = NoBaseLineup
    /\ kb_pc' = "start"
    /\ kb_files' = <<>>
    /\ lineup_ids' = <<>>
    /\ kb_rc' = <<>>
    /\ kb_idx' = 0
    /\ report' = <<>>
    /\ UNCHANGED <<kb_tool, xml_files, analysis_dir>>
    /\ UNCHANGED notKbVars

KbNext == ListFiles \/ ReportLineup \/ CloseReport \/ RunWithoutBase

InitBase == KbInit /\ AnIdle /\ PrIdle /\ LdIdle /\ FtIdle /\ GlIdle /\ MpIdle

SpecBase == InitBase /\ [][KbNext]_vars

\* The base-lineup reports on the output of the analyser: the catalog files of up to
\* three lineups ("9330", "10000" and "9331"), and an analysis folder that holds, for
\* every lineup, the unique_channels file xmltv_analyze.analyze writes for these
\* catalogs.
KbAnalysedPool == KbLineupPool \cup {<<57, 51, 51, 49>>}

\* The name under which a report looks for the catalog of a lineup: xmltv-<id>.xml,
\* xmltv-<id>-channels.xml from downloads.
CatalogName(t, lid) ==
    XMLTV_DASH \o lid \o (IF t = FromDownloads THEN DASH_CHANNELS ELSE <<>>) \o DOT_XML

\* xmltv_analyze.analyze: others = set().union(*(sets[o] for o in keys if o != k));
\* uniq = sorted(sets[k] - others)
AnalysedUnique(files, lid) ==
    files[lid] \ UNION {files[o] : o \in DOMAIN files \ {lid}}

KbInitAnalysed ==
    /\ kb_tool \in KbTools
    /\ \E S \in SUBSET KbAnalysedPool \ {{}} : \E content \in [S -> SUBSET ReportChannelIds] :
          /\ xml_files = [f \in {CatalogName(kb_tool, lid) : lid \in S} |->
                             content[KbLineupId(kb_tool, f)]]
          /\ analysis_dir = [lid \in S |-> AnalysedUnique(content, lid)]
    /\ base_lineup_id = BASE_LINEUP_ID
    /\ KbStart
    /\ kb_run = 1
    /\ first_report = <<>>

InitBaseAnalysed == KbInitAnalysed /\ AnIdle /\ PrIdle /\ LdIdle /\ FtIdle /\ GlIdle /\ MpIdle

SpecBaseAnalysed == InitBaseAnalysed /\ [][KbNext]_vars

(***************************************************************************)
(* The loaders, one <channel> element at a time:                           *)
(* xmltv_analyze._read_xmltv_channels and                                  *)
(* analyze_channels_overlap.parse_channels.                                *)
(***************************************************************************)
\* The longest file followed, in <channel> elements.
MaxRecords == 2

\* A character that str.strip() and str.split() take for white space.
IsSpace(c) ==
    c \in {9, 10, 11, 12, 13, 28, 29, 30, 31, 32, 133, 160, 5760, 8232, 8233, 8239, 8287,
           12288} \cup (8192..8202)

RECURSIVE LStrip(_)
LStrip(s) == IF s # <<>> /\ IsSpace(s[1]) THEN LStrip(Tail(s)) ELSE s

RECURSIVE RStrip(_)
RStrip(s) ==
    IF s # <<>> /\ IsSpace(s[Len(s)]) THEN RStrip(SubSeq(s, 1, Len(s) - 1)) ELSE s

\* str.strip()
Strip(s) == RStrip(LStrip(s))

\* " ".join(s.split()): the words of s with one space between them.
RECURSIVE Collapse(_)
Collapse(s) ==
    LET u == LStrip(s)
    IN IF u = <<>> THEN <<>>
       ELSE LET n == CHOOSE k \in 1..Len(u) :
                        /\ \A i \in 1..k : ~IsSpace(u[i])
                        /\ k = Len(u) \/ IsSpace(u[k + 1])
                rest == Collapse(SubSeq(u, n + 1, Len(u)))
            IN IF rest = <<>> THEN SubSeq(u, 1, n)
               ELSE SubSeq(u, 1, n) \o <<32>> \o rest

\* The id attribute of a <channel> element, as a sequence of at most one text: absent,
\* "", " ", "1", "1" with a tab and a space in front and a carriage return behind, "2".
RawIds ==
    {<<>>, <<<<>>>>, <<<<32>>>>, <<<<49>>>>, <<<<9, 32, 49, 13>>>>, <<<<50>>>>}

\* The texts of the <display-name> elements of a <channel> element: none; CNN; or
\* " ", " HBO" + carriage return + line feed + "2 " and "HBO 2".
RawNames ==
    {<<>>, <<CNN>>,
     <<<<32>>, <<32, 72, 66, 79, 13, 10, 50, 32>>, <<72, 66, 79, 32, 50>>>>}

RawRecords == [id : RawIds, names : RawNames]

\* Mutant: the id is taken without .strip().
channel_id_unstripped(rec) == IF rec.id = <<>> THEN <<>> ELSE rec.id[1]

\* (elem.get("id") or "").strip()
channel_id(rec) == Strip(IF rec.id = <<>> THEN <<>> ELSE rec.id[1])

\* Mutant: a name that differs from a stored name only in letter case is dropped.
RECURSIVE CollectNames_case_blind(_, _)
CollectNames_case_blind(dns, names) ==
    IF dns = <<>> THEN names
    ELSE LET t == Strip(Collapse(dns[1]))
         IN CollectNames_case_blind(Tail(dns),
                IF t # <<>> /\ \A i \in 1..Len(names) : Lower(names[i]) # Lower(t)
                THEN Append(names, t) ELSE names)

\* xmltv_analyze: the distinct non-empty display names, white space collapsed, in
\* first-seen order.
RECURSIVE CollectNames(_, _)
CollectNames(dns, names) ==
    IF dns = <<>> THEN names
    ELSE LET t == Strip(Collapse(dns[1]))
         IN CollectNames(Tail(dns),
                         IF dns[1] # <<>> /\ t # <<>> /\ t \notin Range(names)
                         THEN Append(names, t) ELSE names)

\* analyze_channels_overlap: the first display name that is not blank, stripped.
FirstName(dns) ==
    LET filled == {i \in 1..Len(dns) : Strip(dns[i]) # <<>>}
    IN IF filled = {} THEN <<>>
       ELSE Strip(dns[CHOOSE i \in filled : \A j \in filled : i <= j])

ChannelsInventory == "channels_inventory"

\* channels_inventory.parse_channels: the distinct non-blank display names, stripped,
\* in first-seen order.
RECURSIVE InventoryNames(_, _)
InventoryNames(dns, names) ==
    IF dns = <<>> THEN names
    ELSE LET t == Strip(dns[1])
         IN InventoryNames(Tail(dns),
                           IF t # <<>> /\ t \notin Range(names)
                           THEN Append(names, t) ELSE names)

\* parse_channels of channels_overlap_report and build_channel_overlap_remove_lists:
\* [(dn.text or "").strip() for dn in ... if (dn.text or "").strip()]
ReportNames(dns) ==
    LET NotBlank(s) == s # <<>>
    IN SelectSeq([i \in 1..Len(dns) |-> Strip(dns[i])], NotBlank)

\* The value stored for a <channel> element under its channel id.  For
\* channels_inventory it is the entry main builds for a channel of one lineup: the
\* display names of parse_channels and choose_channel_number of them.
Stored(t, cid, rec) ==
    IF t = XmltvAnalyze THEN Channel(cid, CollectNames(rec.names, <<>>))
    ELSE IF t = ChannelsInventory
    THEN [display_names |-> InventoryNames(rec.names, <<>>),
          channel_number |-> FirstChNum(InventoryNames(rec.names, <<>>))]
    ELSE IF t \in PrTools
    THEN [display_name |-> IF ReportNames(rec.names) # <<>>
                           THEN ReportNames(rec.names)[1] ELSE <<>>,
          channel_number |-> FirstChNum(ReportNames(rec.names))]
    ELSE FirstName(rec.names)

LdInit ==
    /\ ld_tool \in Tools
    /\ records \in UNION {[1..n -> RawRecords] : n \in 0..MaxRecords}
    /\ rec_idx = 1
    /\ ld_channels = <<>>
    /\ ld_pc = "loop"

\* One pass of the loop over the <channel> elements.
ReadChannel ==
    /\ ld_pc = "loop"
    /\ rec_idx <= Len(records)
    /\ LET rec == records[rec_idx]
           cid == channel_id(rec)
       IN IF cid = <<>>
          THEN UNCHANGED ld_channels
          ELSE ld_channels' =
                  [x \in DOMAIN ld_channels \cup {cid} |->
                      IF x = cid THEN Stored(ld_tool, cid, rec) ELSE ld_channels[x]]
    /\ rec_idx' = rec_idx + 1
    /\ UNCHANGED <<ld_tool, records, ld_pc>>
    /\ UNCHANGED notLdVars

\* return channels
ReturnChannels ==
    /\ ld_pc = "loop"
    /\ rec_idx > Len(records)
    /\ ld_pc' = "done"
    /\ UNCHANGED <<ld_tool, records, rec_idx, ld_channels>>
    /\ UNCHANGED notLdVars

LdNext == ReadChannel \/ ReturnChannels

InitLoad == LdInit /\ AnIdle /\ PrIdle /\ KbIdle /\ FtIdle /\ GlIdle /\ MpIdle

SpecLoad == InitLoad /\ [][LdNext]_vars

\* The loaders that keep display names or a channel number, on <channel> elements
\* with the ids "1" and "2" and these <display-name> texts:
\*   none;  "ESPN", "espn", "ESPN";  " ", " HBO  2 ", "HBO 2";  "CNN", "12", "5.1";
\*   "12345", "12.", "1.2.3", "7";  " 12 ", "5";  "12a", ".5", "7.1234".
NameLoaders == {XmltvAnalyze, ChannelsInventory} \cup PrTools

NameLists ==
    {<<>>,
     <<<<69, 83, 80, 78>>, <<101, 115, 112, 110>>, <<69, 83, 80, 78>>>>,
     <<<<32>>, <<32, 72, 66, 79, 32, 32, 50, 32>>, <<72, 66, 79, 32, 50>>>>,
     <<<<67, 78, 78>>, <<49, 50>>, <<53, 46, 49>>>>,
     <<<<49, 50, 51, 52, 53>>, <<49, 50, 46>>, <<49, 46, 50, 46, 51>>, <<55>>>>,
     <<<<32, 49, 50, 32>>, <<53>>>>,
     <<<<49, 50, 97>>, <<46, 53>>, <<55, 46, 49, 50, 51, 52>>>>}

LdInitNames ==
    /\ ld_tool \in NameLoaders
    /\ records \in UNION {[1..n -> [id : {<<Str(1)>>, <<Str(2)>>}, names : NameLists]] :
                             n \in 0..MaxRecords}
    /\ rec_idx = 1
    /\ ld_channels = <<>>
    /\ ld_pc = "loop"

InitNames == LdInitNames /\ AnIdle /\ PrIdle /\ KbIdle /\ FtIdle /\ GlIdle /\ MpIdle

SpecNames == InitNames /\ [][LdNext]_vars

(***************************************************************************)
(* The fetchers: fetch_xmltvlistings_channels.main and                     *)
(* fetch_xmltvlistings_listings.main.  A folder is a function from the     *)
(* names of the lineup files in it to their text; the log file of a run,   *)
(* which lies in the audit folder, is kept as the sequence of its lines.   *)
(* Every write to a file can raise (the disk is full, the share is         *)
(* offline, the file is locked).                                           *)
(***************************************************************************)
FetchChannels == "fetch_xmltvlistings_channels"
FetchListings == "fetch_xmltvlistings_listings"
FtTools == {FetchChannels, FetchListings}

\* "You have reached your limit of 5 downloads per day."
LIMIT_TEXT ==
    <<89, 111, 117, 32, 104, 97, 118, 101, 32, 114, 101, 97, 99, 104, 101,
      100, 32, 121, 111, 117, 114, 32, 108, 105, 109, 105, 116, 32, 111,
      102, 32, 53, 32, 100, 111, 119, 110, 108, 111, 97, 100, 115, 32, 112,
      101, 114, 32, 100, 97, 121, 46>>

\* The length of the head of a payload that is searched for "<tv": s[:1000].
HeadLen == 1000

\* "<tv" and "<channel"
TvTag == <<60, 116, 118>>
ChannelTag == <<60, 99, 104, 97, 110, 110, 101, 108>>

\* s[:1000]
HeadOf(s) == SubSeq(s, 1, IF Len(s) < HeadLen THEN Len(s) ELSE HeadLen)

\* fetch_xmltvlistings_channels.looks_like_channels_xml
looks_like_channels_xml(text) ==
    LET s == LStrip(text)
    IN IF s = <<>> THEN FALSE
       ELSE IF Contains(LIMIT_TEXT, text) THEN FALSE
       ELSE Contains(TvTag, HeadOf(s)) /\ Contains(ChannelTag, text)

\* fetch_xmltvlistings_listings.looks_like_xmltv
looks_like_xmltv(text) ==
    LET s == LStrip(text)
    IN IF s = <<>> THEN FALSE
       ELSE IF Contains(LIMIT_TEXT, text) THEN FALSE
       ELSE Contains(TvTag, HeadOf(s))

\* The validation the fetcher applies to a payload.
LooksValid(t, text) ==
    IF t = FetchChannels THEN looks_like_channels_xml(text) ELSE looks_like_xmltv(text)

\* Mutant: a payload is written whenever it does not hold the daily-limit message.
Verdict_limit_only(t, text) ==
    IF Contains(LIMIT_TEXT, text) THEN "limit" ELSE "valid"

\* What main decides about a fetched payload: the daily-limit test, then the validation.
Verdict(t, text) ==
    IF Contains(LIMIT_TEXT, text) THEN "limit"
    ELSE IF ~LooksValid(t, text) THEN "invalid"
    ELSE "valid"

\* LINEUP_LABELS: "9329" -> "DirecTV[US]", "9330" -> "Spectrum_NY[US]",
\* "9331" -> "Bell_Fibe[CA]".
LINEUP_LABELS ==
    [lid \in {<<57, 51, 50, 57>>, <<57, 51, 51, 48>>, <<57, 51, 51, 49>>} |->
        IF lid = <<57, 51, 50, 57>> THEN <<68, 105, 114, 101, 99, 84, 86, 91, 85, 83, 93>>
        ELSE IF lid = <<57, 51, 51, 48>> THEN <<83, 112, 101, 99, 116, 114, 117, 109, 95, 78, 89, 91, 85, 83, 93>>
        ELSE <<66, 101, 108, 108, 95, 70, 105, 98, 101, 91, 67, 65, 93>>]

\* label_for: LINEUP_LABELS.get(lineup_id, f"Lineup{lineup_id}")
label_for(lid) ==
    IF lid \in DOMAIN LINEUP_LABELS THEN LINEUP_LABELS[lid]
    ELSE <<76, 105, 110, 101, 117, 112>> \o lid

\* fetch_xmltvlistings_channels.out_name: f"{label}-channels-{lid}.xml", and
\* fetch_xmltvlistings_listings.lineup_output_name: f"{label}-xmltv-{lid}.xml".
out_name(t, lid) ==
    label_for(lid)
        \o (IF t = FetchChannels THEN <<45, 99, 104, 97, 110, 110, 101, 108, 115, 45>> ELSE <<45, 120, 109, 108, 116, 118, 45>>)
        \o lid \o <<46, 120, 109, 108>>

\* The values of API_XMLTVLISTING_KEY followed: not set, "  " and "key".
EnvKeys == {<<>>, <<32, 32>>, <<107, 101, 121>>}

\* The values of a --lineups argument followed: "9329", "77", " 77" with a tab and a
\* carriage return behind, and "".
LineupIdArgs == {<<57, 51, 50, 57>>, <<55, 55>>, <<32, 55, 55, 9, 13>>, <<>>}

\* args.lineups: one or two arguments (nargs="+"), repeats included.
LineupArgs ==
    {<<a>> : a \in LineupIdArgs} \cup {<<a, b>> : a, b \in LineupIdArgs}

\* lid = str(lid_raw).strip()
LidOf(arg) == Strip(arg)

\* The values of --days followed; fetch_xmltvlistings_channels takes none.
DaysArgs(t) == IF t = FetchListings THEN {0, 7, 15} ELSE {7}

\* The text of a lineup file that an earlier run left in a folder:
\* <tv><channel id="0"/></tv>
OldFile == <<60, 116, 118, 62, 60, 99, 104, 97, 110, 110, 101, 108, 32, 105, 100,
      61, 34, 48, 34, 47, 62, 60, 47, 116, 118, 62>>

\* The texts the provider answers with:
\*   "", a line of white space, the daily-limit message, an HTML page,
\*   <tv></tv>, a channel list behind a line feed, a second channel list,
\*   a channel list that holds the daily-limit message, a channel list behind
\*   1000 other characters, and a <channel> element outside <tv>.
Payloads ==
    {<<>>,
     <<32, 10>>,
     LIMIT_TEXT,
     <<60, 104, 116, 109, 108, 62>>,
     <<60, 116, 118, 62, 60, 47, 116, 118, 62>>,
     <<10, 60, 116, 118, 62, 60, 99, 104, 97, 110, 110, 101, 108, 32, 105,
      100, 61, 34, 49, 34, 47, 62, 60, 47, 116, 118, 62>>,
     <<60, 116, 118, 62, 60, 99, 104, 97, 110, 110, 101, 108, 32, 105, 100,
      61, 34, 50, 34, 47, 62, 60, 47, 116, 118, 62>>,
     <<60, 116, 118, 62, 60, 99, 104, 97, 110, 110, 101, 108, 47, 62>> \o LIMIT_TEXT \o <<60, 47, 116, 118, 62>>,
     [i \in 1..HeadLen |-> 120] \o <<60, 116, 118, 62, 60, 99, 104, 97, 110, 110, 101, 108, 32, 105, 100,
      61, 34, 50, 34, 47, 62, 60, 47, 116, 118, 62>>,
     <<60, 99, 104, 97, 110, 110, 101, 108, 47, 62>>}

\* What a pass of the loop can get from the provider: an exception out of
\* fetch_channels / fetch_listings, or the text of the response.
Responses ==
    {[raised |-> TRUE, xml |-> <<>>]} \cup {[raised |-> FALSE, xml |-> p] : p \in Payloads}

\* The folders a valid payload is written to, in the order of the writes.
Targets(t) ==
    IF t = FetchChannels THEN <<"out_dir", "publish_dir">>
    ELSE <<"out_dir", "device_dir", "publish_dir">>

\* The folder dir with the file fname holding text.
WriteFile(dir, fname, text) ==
    [x \in DOMAIN dir \cup {fname} |-> IF x = fname THEN text ELSE dir[x]]

\* atomic_write_text: the text goes to a temporary file that then replaces the target;
\* a write that raises leaves the target as it was.
atomic_write_text(dir, fname, text, raises) ==
    IF raises THEN dir ELSE WriteFile(dir, fname, text)

\* The folder d after a pass in which the first k writes succeeded and the next
\* one, if there is one, raised.
AfterWrites(t, d, dir, fname, text, k) ==
    LET at == {p \in 1..Len(Targets(t)) : Targets(t)[p] = d}
    IN IF at = {} THEN dir
       ELSE LET p == CHOOSE q \in at : TRUE
            IN IF p > k + 1 THEN dir
               ELSE atomic_write_text(dir, fname, text, p = k + 1)

\* A printed line.
Line(text, d, fname) == [line |-> text, dir |-> d, fname |-> fname]

\* The "Wrote:" lines of a valid payload of which the first k writes succeeded:
\* fetch_xmltvlistings_channels prints after each write, fetch_xmltvlistings_listings
\* after write_all_copies has returned.
WroteLines(t, fname, k) ==
    IF t = FetchChannels \/ k = Len(Targets(t))
    THEN [p \in 1..k |-> Line("Wrote", Targets(t)[p], fname)]
    ELSE <<>>

\* A line of the log file.
LogMsg(text, lid) == [msg |-> text, lid |-> lid]

\* log_line(log_path, msg): the line is appended to the log file, unless opening or
\* writing the file raises.
log_line(log, msg, raises) == IF raises THEN log ELSE Append(log, msg)

\* The outcomes of a call of log_line: fetch_xmltvlistings_channels keeps no log.
LogRaises(t) == IF t = FetchListings THEN BOOLEAN ELSE {FALSE}

\* The lines main logs before the loop: START, Repo, OutDir, DeviceDir, PublishDir,
\* Lineups and Days/Offset.
StartLines ==
    <<LogMsg("START", <<>>), LogMsg("Repo", <<>>), LogMsg("OutDir", <<>>),
      LogMsg("DeviceDir", <<>>), LogMsg("PublishDir", <<>>), LogMsg("Lineups", <<>>),
      LogMsg("Days/Offset", <<>>)>>

\* What the try block comes to once the provider has answered: the fetch raises, or
\* the verdict on the payload.
TryVerdict(t, r) == IF r.raised THEN "raised" ELSE Verdict(t, r.xml)

\* The numbers of writes of a pass that can succeed: none is tried without a valid
\* payload.
Writes(t, v) == IF v = "valid" THEN 0..Len(Targets(t)) ELSE {0}

\* The outcomes of the second log_line of the try block, which is reached behind a
\* refusal and behind the last write.
SecondLog(t, v, k) ==
    IF v \in {"limit", "invalid"} \/ (v = "valid" /\ k = Len(Targets(t)))
    THEN LogRaises(t) ELSE {FALSE}

\* An exception leaves the try block behind the request: out of the fetch, the
\* log_line of a refusal, a write, or the log_line behind the writes.
Caught(t, v, k, f2) ==
    \/ v = "raised"
    \/ v \in {"limit", "invalid"} /\ f2
    \/ v = "valid" /\ (k < Len(Targets(t)) \/ f2)

\* The lines the try block adds to the log file of fetch_xmltvlistings_listings
\* behind the request.
TryLog(t, lid, v, k, f2) ==
    IF t = FetchChannels \/ f2 \/ v = "raised" THEN <<>>
    ELSE IF v = "limit" THEN <<LogMsg("LIMIT HIT", lid)>>
    ELSE IF v = "invalid" THEN <<LogMsg("INVALID PAYLOAD", lid)>>
    ELSE IF k = Len(Targets(t)) THEN <<LogMsg("WROTE OK", lid)>>
    ELSE <<>>

\* The lines the try block prints.
TryPrints(t, fname, v, k, f2) ==
    IF v = "limit" THEN (IF f2 THEN <<>> ELSE <<Line("SKIP (limit)", "", fname)>>)
    ELSE IF v = "invalid" THEN (IF f2 THEN <<>> ELSE <<Line("SKIP (invalid)", "", fname)>>)
    ELSE IF v = "valid" THEN WroteLines(t, fname, k)
    ELSE <<>>

\* Mutant: the run ends with 0 whatever happened.
ReturnCode_always_zero(blocked) == 0

\* return 2 if any_blocked else 0
ReturnCode(blocked) == IF blocked THEN 2 ELSE 0

FtInit ==
    /\ ft_tool \in FtTools
    /\ env_key \in EnvKeys
    /\ days \in DaysArgs(ft_tool)
    /\ lineups \in LineupArgs
    /\ ft_idx = 1
    /\ any_blocked = FALSE
    /\ \E S \in SUBSET {out_name(ft_tool, LidOf(a)) : a \in LineupIdArgs \ {<<>>}} :
       \E mirrored \in BOOLEAN :
          /\ publish_dir = [f \in S |-> OldFile]
          /\ out_dir = IF mirrored THEN [f \in S |-> OldFile] ELSE <<>>
          /\ device_dir = IF mirrored /\ ft_tool = FetchListings
                          THEN [f \in S |-> OldFile] ELSE <<>>
    /\ stdout = <<>>
    /\ fetched = <<>>
    /\ urls = <<>>
    /\ exit_code = <<>>
    /\ ft_log = <<>>
    /\ ft_pc = "start"

\* The run cannot start: --days is not in 1..14, or the API key is missing.
HardFailure ==
    \/ ft_tool = FetchListings /\ (days < 1 \/ days > 14)
    \/ Strip(env_key) = <<>>

\* die(...): raise SystemExit(1)
Die ==
    /\ ft_pc = "start"
    /\ HardFailure
    /\ exit_code' = <<1>>
    /\ ft_pc' = "done"
    /\ UNCHANGED <<ft_tool, env_key, days, lineups, ft_idx, any_blocked, out_dir,
                   device_dir, publish_dir, stdout, fetched, urls, ft_log>>
    /\ UNCHANGED notFtVars

\* The arguments are read and the folders made; fetch_xmltvlistings_listings logs its
\* seven opening lines, and a log_line that raises ends the process with the
\* exception (exit code 1).
Setup ==
    /\ ft_pc = "start"
    /\ ~HardFailure
    /\ IF ft_tool = FetchListings
       THEN \E n \in 0..Len(StartLines) :
               /\ ft_log' = SubSeq(StartLines, 1, n)
               /\ IF n < Len(StartLines)
                  THEN exit_code' = <<1>> /\ ft_pc' = "done"
                  ELSE exit_code' = exit_code /\ ft_pc' = "loop"
       ELSE /\ ft_pc' = "loop"
            /\ UNCHANGED <<exit_code, ft_log>>
    /\ UNCHANGED <<ft_tool, env_key, days, lineups, ft_idx, any_blocked, out_dir,
                   device_dir, publish_dir, stdout, fetched, urls>>
    /\ UNCHANGED notFtVars

\* if not lid: continue
SkipBlank ==
    /\ ft_pc = "loop"
    /\ ft_idx <= Len(lineups)
    /\ LidOf(lineups[ft_idx]) = <<>>
    /\ ft_idx' = ft_idx + 1
    /\ fetched' = <<>>
    /\ UNCHANGED <<ft_tool, env_key, days, lineups, any_blocked, out_dir, device_dir,
                   publish_dir, stdout, urls, exit_code, ft_log, ft_pc>>
    /\ UNCHANGED notFtVars

\* The head of a pass of fetch_xmltvlistings_listings for a lineup id that is not
\* blank: the "Fetching" line is logged and requests.get is entered, where the process
\* waits for the provider.  When the log_line raises nothing is asked: the except
\* clause follows at once, and an exception out of its log_line ends the process
\* (exit code 1) inside the loop.
AskProvider ==
    /\ ft_tool = FetchListings
    /\ ft_pc = "loop"
    /\ ft_idx <= Len(lineups)
    /\ LidOf(lineups[ft_idx]) # <<>>
    /\ LET lid == LidOf(lineups[ft_idx])
           fname == out_name(ft_tool, lid)
       IN \E f1 \in LogRaises(ft_tool) :
             IF ~f1
             THEN /\ ft_log' = log_line(ft_log, LogMsg("Fetching", lid), f1)
                  /\ ft_pc' = "wait"
                  /\ UNCHANGED <<ft_idx, any_blocked, stdout, fetched, exit_code>>
             ELSE \E f3 \in LogRaises(ft_tool) :
                  /\ fetched' = <<>>
                  /\ any_blocked' = TRUE
                  /\ ft_log' = log_line(ft_log, LogMsg("ERROR", lid), f3)
                  /\ stdout' = stdout \o (IF f3 THEN <<>>
                                          ELSE <<Line("SKIP (error)", "", fname)>>)
                  /\ IF f3
                     THEN /\ exit_code' = <<1>>
                          /\ ft_pc' = "done"
                          /\ ft_idx' = ft_idx
                     ELSE /\ ft_idx' = ft_idx + 1
                          /\ UNCHANGED <<exit_code, ft_pc>>
    /\ UNCHANGED <<ft_tool, env_key, days, lineups, out_dir, device_dir, publish_dir,
                   urls>>
    /\ UNCHANGED notFtVars

\* The provider answers (a response, an HTTP error or the time-out) and the pass runs
\* to its end: the rest of the try block and the except clause.  In
\* fetch_xmltvlistings_channels, which does nothing in front of the request, this is
\* the whole pass for a lineup id that is not blank.  r is the answer, k the number of
\* writes that succeed, f2 says whether the log_line of the try block behind the
\* request raises, f3 whether the log_line of the except clause does; an exception
\* out of the except clause ends the process (exit code 1) inside the loop.
FetchLineup ==
    /\ ft_pc = (IF ft_tool = FetchListings THEN "wait" ELSE "loop")
    /\ ft_idx <= Len(lineups)
    /\ LidOf(lineups[ft_idx]) # <<>>
    /\ LET lid == LidOf(lineups[ft_idx])
           fname == out_name(ft_tool, lid)
       IN \E r \in Responses :
          LET v == TryVerdict(ft_tool, r)
          IN \E k \in Writes(ft_tool, v) : \E f2 \in SecondLog(ft_tool, v, k) :
             LET caught == Caught(ft_tool, v, k, f2)
                 logged == ft_log \o TryLog(ft_tool, lid, v, k, f2)
             IN \E f3 \in IF caught THEN LogRaises(ft_tool) ELSE {FALSE} :
                /\ fetched' = <<r>>
                /\ urls' = Append(urls, lid)
                /\ IF v = "valid"
                   THEN /\ out_dir' =
                              AfterWrites(ft_tool, "out_dir", out_dir, fname, r.xml, k)
                        /\ device_dir' =
                              AfterWrites(ft_tool, "device_dir", device_dir, fname, r.xml, k)
                        /\ publish_dir' =
                              AfterWrites(ft_tool, "publish_dir", publish_dir, fname, r.xml, k)
                   ELSE UNCHANGED <<out_dir, device_dir, publish_dir>>
                /\ any_blocked' = (any_blocked \/ v \in {"limit", "invalid"} \/ caught)
                /\ ft_log' = IF caught /\ ft_tool = FetchListings
                             THEN log_line(logged, LogMsg("ERROR", lid), f3)
                             ELSE logged
                /\ stdout' = stdout \o TryPrints(ft_tool, fname, v, k, f2)
                                 \o (IF caught /\ ~f3
                                     THEN <<Line("SKIP (error)", "", fname)>> ELSE <<>>)
                /\ IF caught /\ f3
                   THEN /\ exit_code' = <<1>>
                        /\ ft_pc' = "done"
                        /\ ft_idx' = ft_idx
                   ELSE /\ ft_idx' = ft_idx + 1
                        /\ ft_pc' = "loop"
                        /\ exit_code' = exit_code
    /\ UNCHANGED <<ft_tool, env_key, days, lineups>>
    /\ UNCHANGED notFtVars

\* The lines printed behind the loop: fetch_xmltvlistings_listings prints "DONE" and
\* "Log: " with the path of its log file, which lies in the audit folder and is named
\* by the time stamp; fetch_xmltvlistings_channels prints nothing.
ClosingLines(t) ==
    IF t = FetchListings THEN <<Line("DONE", "", <<>>), Line("Log:", "out_dir", <<>>)>>
    ELSE <<>>

\* The end of main: fetch_xmltvlistings_listings logs "DONE", the closing lines are
\* printed and main returns 2 if any_blocked else 0, raised as SystemExit by its
\* caller; a log_line that raises ends the process with the exception instead.
ReturnExit ==
    /\ ft_pc = "loop"
    /\ ft_idx > Len(lineups)
    /\ \E f \in LogRaises(ft_tool) :
          /\ ft_log' = IF ft_tool = FetchListings
                       THEN log_line(ft_log, LogMsg("DONE", <<>>), f) ELSE ft_log
          /\ stdout' = IF f THEN stdout ELSE stdout \o ClosingLines(ft_tool)
          /\ exit_code' = IF f THEN <<1>> ELSE <<ReturnCode(any_blocked)>>
    /\ ft_pc' = "done"
    /\ UNCHANGED <<ft_tool, env_key, days, lineups, ft_idx, any_blocked, out_dir,
                   device_dir, publish_dir, fetched, urls>>
    /\ UNCHANGED notFtVars

FtNext == Die \/ Setup \/ SkipBlank \/ AskProvider \/ FetchLineup \/ ReturnExit

InitFetch == FtInit /\ AnIdle /\ PrIdle /\ KbIdle /\ LdIdle /\ GlIdle /\ MpIdle

SpecFetch == InitFetch /\ [][FtNext]_vars

\* The process keeps running until it exits: every request to the provider ends, with
\* a response, an HTTP error or the timeout of requests.get.
SpecFetchFair == SpecFetch /\ WF_vars(FtNext)

(***************************************************************************)
(* fetch_xmltvlistings_get_lineups.main.  A folder is a function from the  *)
(* three file names to the text of the file, <<>> for a file that does not *)
(* exist.  A text is a sequence of code points; the texts the provider     *)
(* sends are ASCII, a character reference can stand for any character.     *)
(***************************************************************************)
\* "<lineups", "</lineups>" and "lineup"
LineupsOpen == <<60, 108, 105, 110, 101, 117, 112, 115>>
LineupsClose == <<60, 47, 108, 105, 110, 101, 117, 112, 115, 62>>
LineupTag == <<108, 105, 110, 101, 117, 112>>

\* \w of the pattern, on ASCII
IsWordChar(c) == (c >= 48 /\ c <= 57) \/ (c >= 65 /\ c <= 90) \/ (c >= 97 /\ c <= 122) \/ c = 95

\* The least position >= from at which sub occurs in s, 0 if it does not.
FindFrom(sub, s, from) ==
    LET hits == {i \in from..(Len(s) - Len(sub) + 1) : SubSeq(s, i, i + Len(sub) - 1) = sub}
    IN IF hits = {} THEN 0 ELSE CHOOSE i \in hits : \A j \in hits : i <= j

\* RE_LINEUPS_BLOCK.search(s): (<lineups\b[\s\S]*?</lineups>) without regard to
\* letter case; <<>> for no match, else <<group 1>>: from the first "<lineups" that
\* ends a word and has a "</lineups>" behind it, to the first such "</lineups>".
RE_LINEUPS_BLOCK(s) ==
    LET low == Lower(s)
        starts == {i \in 1..(Len(s) - 8) :
                      /\ SubSeq(low, i, i + 7) = LineupsOpen
                      /\ ~IsWordChar(s[i + 8])
                      /\ FindFrom(LineupsClose, low, i + 8) # 0}
    IN IF starts = {} THEN <<>>
       ELSE LET i == CHOOSE k \in starts : \A j \in starts : k <= j
                e == FindFrom(LineupsClose, low, i + 8)
            IN <<SubSeq(s, i, e + 9)>>

\* Mutant: the daily-limit message is not looked for.
extract_lineups_xml_no_limit(xml_text) ==
    IF xml_text = <<>> THEN <<>>
    ELSE LET m == RE_LINEUPS_BLOCK(xml_text)
         IN IF m = <<>> THEN <<>> ELSE <<Strip(m[1])>>

\* extract_lineups_xml: <<>> for None, else <<the block>>.
extract_lineups_xml(xml_text) ==
    IF xml_text = <<>> THEN <<>>
    ELSE IF Contains(LIMIT_TEXT, xml_text) THEN <<>>
    ELSE LET m == RE_LINEUPS_BLOCK(xml_text)
         IN IF m = <<>> THEN <<>> ELSE <<Strip(m[1])>>

\* White space of XML: S ::= (#x20 | #x9 | #xD | #xA)+
IsXmlSpace(c) == c \in {32, 9, 10, 13}

\* A character that XML allows in a document.
IsXmlChar(c) ==
    \/ c \in {9, 10, 13}
    \/ c >= 32 /\ c <= 55295
    \/ c >= 57344 /\ c <= 65533
    \/ c >= 65536 /\ c <= 1114111

\* The characters of a name, the colon apart (ASCII).
IsNameStart(c) == (c >= 65 /\ c <= 90) \/ (c >= 97 /\ c <= 122) \/ c = 95
IsNameChar(c) == IsNameStart(c) \/ IsDigitChar(c) \/ c \in {45, 46}

\* A name without a colon.
IsNCName(s) == s # <<>> /\ IsNameStart(s[1]) /\ \A i \in 1..Len(s) : IsNameChar(s[i])

\* The position of the first colon of a name, 0 if it has none; the prefix before it
\* and the local part behind it.
ColonAt(s) == FindFrom(<<58>>, s, 1)
PrefixOf(s) == SubSeq(s, 1, ColonAt(s) - 1)
LocalOf(s) == SubSeq(s, ColonAt(s) + 1, Len(s))

\* The name of an element or an attribute as the namespace-aware parser takes it:
\* a name without a colon, or a prefix and a local part with one colon between them.
IsXmlName(s) ==
    IF ColonAt(s) = 0 THEN IsNCName(s) ELSE IsNCName(PrefixOf(s)) /\ IsNCName(LocalOf(s))

\* The least position >= from that holds no white space, Len(s) + 1 if there is none.
SkipSpace(s, from) ==
    LET stops == {i \in from..Len(s) : ~IsXmlSpace(s[i])}
    IN IF stops = {} THEN Len(s) + 1 ELSE CHOOSE i \in stops : \A j \in stops : i <= j

\* The position behind the name that starts at from.
NameEnd(s, from) ==
    LET stops == {i \in from..Len(s) : ~IsNameChar(s[i]) /\ s[i] # 58}
    IN IF stops = {} THEN Len(s) + 1 ELSE CHOOSE i \in stops : \A j \in stops : i <= j

\* sub stands in s at position pos.
StartsAt(s, pos, sub) ==
    pos + Len(sub) - 1 <= Len(s) /\ SubSeq(s, pos, pos + Len(sub) - 1) = sub

\* The value of a hexadecimal digit, 16 for any other character.
HexVal(c) ==
    IF c >= 48 /\ c <= 57 THEN c - 48
    ELSE IF c >= 65 /\ c <= 70 THEN c - 55
    ELSE IF c >= 97 /\ c <= 102 THEN c - 87
    ELSE 16

\* The number that digits write in a base, 1114112 for every number above 0x10FFFF.
RECURSIVE CharNumber(_, _)
CharNumber(digits, base) ==
    IF digits = <<>> THEN 0
    ELSE LET v == CharNumber(SubSeq(digits, 1, Len(digits) - 1), base) * base
                  + HexVal(digits[Len(digits)])
         IN IF v > 1114111 THEN 1114112 ELSE v

\* A character reference &#N; or &#xH;, body being the text between "&#" and ";":
\* <<the character>>, <<>> for a reference that is an error.
CharRef(body) ==
    LET hex == body # <<>> /\ body[1] = 120
        digits == IF hex THEN Tail(body) ELSE body
        base == IF hex THEN 16 ELSE 10
    IN IF digits = <<>> \/ \E i \in 1..Len(digits) : HexVal(digits[i]) >= base THEN <<>>
       ELSE IF IsXmlChar(CharNumber(digits, base)) THEN <<CharNumber(digits, base)>>
       ELSE <<>>

\* A reference to one of the five entities every document has: amp, lt, gt, quot, apos.
EntityRef(body) ==
    CASE body = <<97, 109, 112>> -> <<38>>
      [] body = <<108, 116>> -> <<60>>
      [] body = <<103, 116>> -> <<62>>
      [] body = <<113, 117, 111, 116>> -> <<34>>
      [] body = <<97, 112, 111, 115>> -> <<39>>
      [] OTHER -> <<>>

\* The character of a reference, body being the text between "&" and ";".
Reference(body) ==
    IF body # <<>> /\ body[1] = 35 THEN CharRef(Tail(body)) ELSE EntityRef(body)

\* Every character of a text is one that XML allows.
AllChars(raw) == \A i \in 1..Len(raw) : IsXmlChar(raw[i])

\* A character that LineEnds keeps.
IsKept(c) == c # -1

\* A text with its line ends, CR LF and CR alone, made line feeds.
LineEnds(raw) ==
    SelectSeq([i \in 1..Len(raw) |->
                  IF i > 1 /\ raw[i] = 10 /\ raw[i - 1] = 13 THEN -1
                  ELSE IF raw[i] = 13 THEN 10
                  ELSE raw[i]], IsKept)

\* A text with a space for every tab and line feed.
Spaces(raw) == [i \in 1..Len(raw) |-> IF raw[i] \in {9, 10} THEN 32 ELSE raw[i]]

DecodeError == [ok |-> FALSE, text |-> <<>>]

\* Character data (att FALSE) or an attribute value (att TRUE) without references: its
\* line ends become line feeds, and in an attribute value every white space becomes a
\* space.  ok is FALSE for "<" and for a character XML does not allow.
Literal(raw, att) ==
    IF 60 \in Range(raw) \/ ~AllChars(raw) THEN DecodeError
    ELSE [ok |-> TRUE, text |-> IF att THEN Spaces(LineEnds(raw)) ELSE LineEnds(raw)]

\* The characters that character data or an attribute value stands for: as Literal,
\* with every reference replaced by its character, which is taken as it is.  ok is
\* FALSE for a reference that is an error as well.
RECURSIVE Decode(_, _)

\* The text before a reference, its character and the decoded text behind it.
Joined(head, char, rest) ==
    IF head.ok /\ rest.ok THEN [ok |-> TRUE, text |-> head.text \o char \o rest.text]
    ELSE DecodeError

\* The first "&" of raw is at amp, the next ";" at semi.
Referenced(raw, amp, semi, att) ==
    IF semi = 0 THEN DecodeError
    ELSE IF Reference(SubSeq(raw, amp + 1, semi - 1)) = <<>> THEN DecodeError
    ELSE Joined(Literal(SubSeq(raw, 1, amp - 1), att),
                Reference(SubSeq(raw, amp + 1, semi - 1)),
                Decode(SubSeq(raw, semi + 1, Len(raw)), att))

Decode(raw, att) ==
    IF FindFrom(<<38>>, raw, 1) = 0 THEN Literal(raw, att)
    ELSE Referenced(raw, FindFrom(<<38>>, raw, 1),
                    FindFrom(<<59>>, raw, FindFrom(<<38>>, raw, 1) + 1), att)

TagError == [ok |-> FALSE, next |-> 0, empty |-> FALSE, atts |-> <<>>]

\* The attributes of a start tag from position pos on, behind the element name or an
\* attribute value, atts being those read so far: the position behind the tag, whether
\* the tag closes the element as well (<a/>), and the attributes with their values, in
\* the order written.  An attribute is name = "value" or name = 'value', with white
\* space before it and any white space around "="; no name is written twice.
RECURSIVE Attributes(_, _, _)

\* The value of the attribute name opens with the quote at q; the same quote closes it.
AttribValue(s, name, q, close, atts) ==
    IF close = 0 \/ \E i \in 1..Len(atts) : atts[i].name = name THEN TagError
    ELSE IF ~Decode(SubSeq(s, q + 1, close - 1), TRUE).ok THEN TagError
    ELSE Attributes(s, close + 1,
                    Append(atts, [name |-> name,
                                  value |-> Decode(SubSeq(s, q + 1, close - 1), TRUE).text]))

\* An attribute name runs from p to e - 1; "=" is at eq and the quote at q.
AttribOf(s, p, e, eq, q, atts) ==
    IF ~IsXmlName(SubSeq(s, p, e - 1)) \/ eq > Len(s) \/ q > Len(s) THEN TagError
    ELSE IF s[eq] # 61 \/ s[q] \notin {34, 39} THEN TagError
    ELSE AttribValue(s, SubSeq(s, p, e - 1), q, FindFrom(<<s[q]>>, s, q + 1), atts)

\* The tag goes on at p, behind the white space that starts at pos.
AttribAt(s, pos, p, atts) ==
    IF p > Len(s) THEN TagError
    ELSE IF s[p] = 62 THEN [ok |-> TRUE, next |-> p + 1, empty |-> FALSE, atts |-> atts]
    ELSE IF s[p] = 47
    THEN IF p < Len(s) /\ s[p + 1] = 62
         THEN [ok |-> TRUE, next |-> p + 2, empty |-> TRUE, atts |-> atts]
         ELSE TagError
    ELSE IF p = pos THEN TagError
    ELSE AttribOf(s, p, NameEnd(s, p), SkipSpace(s, NameEnd(s, p)),
                  SkipSpace(s, SkipSpace(s, NameEnd(s, p)) + 1), atts)

Attributes(s, pos, atts) == AttribAt(s, pos, SkipSpace(s, pos), atts)

\* "xmlns", "xml" and the two namespace names that no declaration may use.
Xmlns == <<120, 109, 108, 110, 115>>
XmlPrefix == <<120, 109, 108>>
XmlNamespace == <<104, 116, 116, 112, 58, 47, 47, 119, 119, 119, 46, 119, 51, 46, 111,
    114, 103, 47, 88, 77, 76, 47, 49, 57, 57, 56, 47, 110, 97, 109, 101,
    115, 112, 97, 99, 101>>
XmlnsNamespace == <<104, 116, 116, 112, 58, 47, 47, 119, 119, 119, 46, 119, 51, 46, 111,
    114, 103, 47, 50, 48, 48, 48, 47, 120, 109, 108, 110, 115, 47>>

\* An attribute that declares a namespace: xmlns="uri" or xmlns:prefix="uri".
IsDeclaration(a) == a.name = Xmlns \/ PrefixOf(a.name) = Xmlns
IsPlainAttribute(a) == ~IsDeclaration(a)

\* A declaration the parser accepts: a prefix is bound to a namespace name that is not
\* empty, the prefix xml to its own namespace only and no other prefix to it, the
\* prefix xmlns never, and nothing to the namespace of xmlns.  A namespace name holds
\* no "}", the character ElementTree has the parser put between a namespace name and
\* a local name.
DeclarationOk(a) ==
    /\ a.value \notin {XmlnsNamespace}
    /\ 125 \notin Range(a.value)
    /\ a.name = Xmlns => a.value # XmlNamespace
    /\ a.name # Xmlns =>
          /\ a.value # <<>>
          /\ LocalOf(a.name) # Xmlns
          /\ (LocalOf(a.name) = XmlPrefix) <=> (a.value = XmlNamespace)

\* The declarations in scope inside an element: those around it, then its own.
ScopeOf(scope, atts) ==
    scope \o [i \in 1..Len(SelectSeq(atts, IsDeclaration)) |->
                 [prefix |-> IF SelectSeq(atts, IsDeclaration)[i].name = Xmlns THEN <<>>
                             ELSE LocalOf(SelectSeq(atts, IsDeclaration)[i].name),
                  uri |-> SelectSeq(atts, IsDeclaration)[i].value]]

\* The namespace name a prefix is bound to, <<>> for the prefix itself meaning the
\* default namespace: <<name>>, or <<>> for a prefix that is not bound.  The innermost
\* declaration counts; xml is bound without a declaration.
Bound(scope, prefix) ==
    LET hits == {i \in 1..Len(scope) : scope[i].prefix = prefix}
    IN IF hits # {} THEN <<scope[CHOOSE i \in hits : \A j \in hits : i >= j].uri>>
       ELSE IF prefix = XmlPrefix THEN <<XmlNamespace>>
       ELSE IF prefix = <<>> THEN <<<<>>>>
       ELSE <<>>

\* The name ElementTree gives an element (att FALSE) or an attribute (att TRUE):
\* "{namespace}local", or the name alone when it is in no namespace; a name without a
\* prefix is in the default namespace if it names an element and in none if it names
\* an attribute.  <<>> for a prefix that is not bound.
Expanded(scope, name, att) ==
    LET uri == IF att /\ ColonAt(name) = 0 THEN <<<<>>>> ELSE Bound(scope, PrefixOf(name))
    IN IF uri = <<>> THEN <<>>
       ELSE IF uri[1] = <<>> THEN <<LocalOf(name)>>
       ELSE <<<<123>> \o uri[1] \o <<125>> \o LocalOf(name)>>

\* The attributes of an element under the names ElementTree gives them; ok is FALSE
\* for a prefix that is not bound and for two attributes with the same name.
Attrib(scope, atts) ==
    LET plain == SelectSeq(atts, IsPlainAttribute)
        names == [i \in 1..Len(plain) |-> Expanded(scope, plain[i].name, TRUE)]
    IN [ok |-> /\ \A i \in 1..Len(names) : names[i] # <<>>
               /\ \A i, j \in 1..Len(names) : names[i] = names[j] => i = j,
        id |-> LET hits == {i \in 1..Len(plain) : names[i] = <<<<105, 100>>>>}
               IN IF hits = {} THEN <<>> ELSE <<plain[CHOOSE i \in hits : TRUE].value>>]

ParseError == [ok |-> FALSE, els |-> <<>>]

\* The text before the first child of the innermost open element is its el.text.
AddText(stack, els, text) ==
    IF text = <<>> \/ stack[Len(stack)].kids THEN els
    ELSE [els EXCEPT ![stack[Len(stack)].at].text = @ \o text]

\* The text from a position up to the next "<" or the end.
TextAt(s, from) ==
    LET nxt == FindFrom(<<60>>, s, from)
    IN SubSeq(s, from, IF nxt = 0 THEN Len(s) ELSE nxt - 1)

\* ET.fromstring(s), from position pos on.  stack holds the open elements, the
\* innermost last: the name as written, the declarations in scope, the place of the
\* element in els and whether it has had a child.  els holds the elements met so far
\* in document order, each with its tag, its id attribute and its text.  s begins with
\* a start tag, as every block that RE_LINEUPS_BLOCK cuts does, so it has no XML
\* declaration and no document type declaration.
RECURSIVE Parse(_, _, _, _)

\* The innermost open element has a child.
WithChild(stack) ==
    IF stack = <<>> THEN stack ELSE [stack EXCEPT ![Len(stack)].kids = TRUE]

\* The declarations in scope where the next element opens.
ScopeAt(stack) == IF stack = <<>> THEN <<>> ELSE stack[Len(stack)].scope

\* An element has opened: expanded is the name ElementTree gives it and att its
\* attributes, both in the scope of its own declarations.  Its parent has a child, and
\* it is the innermost open element unless its tag closes it as well.
Opened(s, name, tag, scope, expanded, att, stack, els) ==
    IF expanded = <<>> \/ ~att.ok THEN ParseError
    ELSE Parse(s, tag.next,
               IF tag.empty THEN WithChild(stack)
               ELSE Append(WithChild(stack), [name |-> name, scope |-> scope,
                                              at |-> Len(els) + 1, kids |-> FALSE]),
               Append(els, [tag |-> expanded[1], id |-> att.id, text |-> <<>>]))

\* The element of a start tag in the scope of its declarations.
Element(s, name, tag, scope, stack, els) ==
    Opened(s, name, tag, scope, Expanded(scope, name, FALSE), Attrib(scope, tag.atts),
           stack, els)

\* A start tag has been read: tag holds its attributes and the position behind it.
Tagged(s, name, tag, stack, els) ==
    IF ~tag.ok THEN ParseError
    ELSE IF \E i \in 1..Len(tag.atts) :
                IsDeclaration(tag.atts[i]) /\ ~DeclarationOk(tag.atts[i])
    THEN ParseError
    ELSE Element(s, name, tag, ScopeOf(ScopeAt(stack), tag.atts), stack, els)

\* A start tag at pos, its name ending before e; no element follows the root.
StartTag(s, pos, e, stack, els) ==
    IF stack = <<>> /\ els # <<>> THEN ParseError
    ELSE IF ~IsXmlName(SubSeq(s, pos + 1, e - 1)) THEN ParseError
    ELSE Tagged(s, SubSeq(s, pos + 1, e - 1), Attributes(s, e, <<>>), stack, els)

\* An end tag at pos, its name ending before e and ">" expected at gt: it closes the
\* innermost open element, by the name the start tag wrote.
EndTag(s, pos, e, gt, stack, els) ==
    IF stack = <<>> \/ gt > Len(s) THEN ParseError
    ELSE IF s[gt] # 62 \/ SubSeq(s, pos + 2, e - 1) # stack[Len(stack)].name THEN ParseError
    ELSE Parse(s, gt + 1, SubSeq(stack, 1, Len(stack) - 1), els)

\* A comment at pos, the first "--" behind "<!--" at close: it must be the "-->".
Comment(s, pos, close, stack, els) ==
    IF close = 0 \/ close + 2 > Len(s) THEN ParseError
    ELSE IF s[close + 2] # 62 \/ ~AllChars(SubSeq(s, pos + 4, close - 1)) THEN ParseError
    ELSE Parse(s, close + 3, stack, els)

\* A CDATA section at pos, the first "]]>" behind "<![CDATA[" at close: text of the
\* element it is in.
CData(s, pos, close, stack, els) ==
    IF stack = <<>> \/ close = 0 THEN ParseError
    ELSE IF ~AllChars(SubSeq(s, pos + 9, close - 1)) THEN ParseError
    ELSE Parse(s, close + 3, stack,
               AddText(stack, els, LineEnds(SubSeq(s, pos + 9, close - 1))))

\* A processing instruction at pos, its target ending before e: the target is a name
\* without a colon other than xml in any case, and "?>" follows it at once or after
\* white space and data.
Instruction(s, pos, e, close, stack, els) ==
    IF ~IsNCName(SubSeq(s, pos + 2, e - 1)) \/ Lower(SubSeq(s, pos + 2, e - 1)) = XmlPrefix
    THEN ParseError
    ELSE IF StartsAt(s, e, <<63, 62>>) THEN Parse(s, e + 2, stack, els)
    ELSE IF e > Len(s) \/ close = 0 THEN ParseError
    ELSE IF ~IsXmlSpace(s[e]) \/ ~AllChars(SubSeq(s, e, close - 1)) THEN ParseError
    ELSE Parse(s, close + 2, stack, els)

\* Markup starts at pos: a comment, a CDATA section, a processing instruction, an end
\* tag or a start tag.
AfterTag(s, pos, stack, els) ==
    IF StartsAt(s, pos, <<60, 33, 45, 45>>)
    THEN Comment(s, pos, FindFrom(<<45, 45>>, s, pos + 4), stack, els)
    ELSE IF StartsAt(s, pos, <<60, 33, 91, 67, 68, 65, 84, 65, 91>>)
    THEN CData(s, pos, FindFrom(<<93, 93, 62>>, s, pos + 9), stack, els)
    ELSE IF StartsAt(s, pos, <<60, 63>>)
    THEN Instruction(s, pos, NameEnd(s, pos + 2),
                     FindFrom(<<63, 62>>, s, NameEnd(s, pos + 2) + 1), stack, els)
    ELSE IF StartsAt(s, pos, <<60, 47>>)
    THEN EndTag(s, pos, NameEnd(s, pos + 2), SkipSpace(s, NameEnd(s, pos + 2)), stack, els)
    ELSE StartTag(s, pos, NameEnd(s, pos + 1), stack, els)

\* Text runs from pos to the next markup: outside the root only white space is
\* allowed; inside an element "]]>" is not, and its references are replaced.
AfterText(s, pos, text, stack, els) ==
    IF stack = <<>>
    THEN IF \E i \in 1..Len(text) : ~IsXmlSpace(text[i]) THEN ParseError
         ELSE Parse(s, pos + Len(text), stack, els)
    ELSE IF Contains(<<93, 93, 62>>, text) \/ ~Decode(text, FALSE).ok THEN ParseError
    ELSE Parse(s, pos + Len(text), stack, AddText(stack, els, Decode(text, FALSE).text))

Parse(s, pos, stack, els) ==
    IF pos > Len(s)
    THEN IF stack = <<>> /\ els # <<>> THEN [ok |-> TRUE, els |-> els] ELSE ParseError
    ELSE IF s[pos] # 60 THEN AfterText(s, pos, TextAt(s, pos), stack, els)
    ELSE AfterTag(s, pos, stack, els)

\* The value of a decimal digit, 10 for any other character.
DigitVal(c) ==
    LET z == {k \in DecimalZeros : k <= c /\ c <= k + 9}
    IN IF z = {} THEN 10 ELSE c - (CHOOSE k \in z : TRUE)

\* What int() reads behind the sign: digits, with single underscores between them.
IsIntDigits(s) ==
    /\ s # <<>>
    /\ DigitVal(s[1]) < 10 /\ DigitVal(s[Len(s)]) < 10
    /\ \A i \in 1..Len(s) : DigitVal(s[i]) < 10 \/ s[i] = 95
    /\ \A i \in 1..(Len(s) - 1) : ~(s[i] = 95 /\ s[i + 1] = 95)

\* The number that the digits of s write, underscores left out.
RECURSIVE DigitsValue(_)
DigitsValue(s) ==
    IF s = <<>> THEN 0
    ELSE IF s[Len(s)] = 95 THEN DigitsValue(SubSeq(s, 1, Len(s) - 1))
    ELSE 10 * DigitsValue(SubSeq(s, 1, Len(s) - 1)) + DigitVal(s[Len(s)])

\* White space that int() skips around a number: that of str.strip() without the four
\* separators 28..31.
IsIntSpace(c) == IsSpace(c) /\ c \notin 28..31

\* The text between the first and the last character that int() does not skip.
IntText(text) ==
    LET solid == {i \in 1..Len(text) : ~IsIntSpace(text[i])}
    IN IF solid = {} THEN <<>>
       ELSE SubSeq(text, CHOOSE i \in solid : \A j \in solid : i <= j,
                   CHOOSE i \in solid : \A j \in solid : i >= j)

\* int(text): <<the number>>, <<>> where int raises ValueError.  A sign may stand
\* before the digits.
IntValue(text) ==
    LET t == IntText(text)
        signed == t # <<>> /\ t[1] \in {43, 45}
        digits == IF signed THEN Tail(t) ELSE t
    IN IF ~IsIntDigits(digits) THEN <<>>
       ELSE <<(IF signed /\ t[1] = 45 THEN -1 ELSE 1) * DigitsValue(digits)>>

\* keyfn: int(lineup_id), 999999999 for an id that int() does not read.
keyfn(x) == IF IntValue(x.lineup_id) = <<>> THEN 999999999 ELSE IntValue(x.lineup_id)[1]

\* The list parse_lineups returns for the document that root holds: the lineup
\* elements below the root that have an id or a name, sorted by keyfn (a stable sort).
ParsedRows(root) ==
    LET E(i) == root.els[i + 1]
        row(i) == [lineup_id |-> IF E(i).id = <<>> THEN <<>> ELSE Strip(E(i).id[1]),
                   lineup_name |-> Strip(E(i).text)]
        all == [i \in 1..(Len(root.els) - 1) |-> <<E(i).tag, row(i)>>]
        kept(p) == p[1] = LineupTag /\ (p[2].lineup_id # <<>> \/ p[2].lineup_name # <<>>)
        sel == SelectSeq(all, kept)
        out == [i \in 1..Len(sel) |-> sel[i][2]]
    IN IF ~root.ok THEN [ok |-> FALSE, rows |-> <<>>]
       ELSE [ok |-> TRUE, rows |-> SortedBy(out, [x \in Range(out) |-> <<keyfn(x)>>])]

\* parse_lineups: ok is FALSE where ET.fromstring raises, rows the sorted list.
parse_lineups(lineups_xml) == ParsedRows(Parse(lineups_xml, 1, <<>>, <<>>))

\* The concatenation of the texts of a sequence, sep between them: sep.join(parts).
RECURSIVE JoinText(_, _)
JoinText(sep, parts) ==
    IF parts = <<>> THEN <<>>
    ELSE IF Len(parts) = 1 THEN parts[1]
    ELSE parts[1] \o sep \o JoinText(sep, Tail(parts))

\* s.replace('"', '""')
RECURSIVE DoubleQuotes(_)
DoubleQuotes(s) ==
    IF s = <<>> THEN <<>>
    ELSE (IF s[1] = 34 THEN <<34, 34>> ELSE <<s[1]>>) \o DoubleQuotes(Tail(s))

\* csv_text: the header and one line "id","name" for every lineup.
csv_text(rows) ==
    LET line(i) == <<34>> \o DoubleQuotes(rows[i].lineup_id) \o <<34, 44, 34>>
                   \o DoubleQuotes(rows[i].lineup_name) \o <<34>>
        csv_lines == <<LINEUP_ID \o <<44>> \o <<108, 105, 110, 101, 117, 112, 95, 110, 97, 109, 101>>>>
                     \o [i \in 1..Len(rows) |-> line(i)]
    IN JoinText(<<10>>, csv_lines) \o <<10>>

\* A character as json.dumps(..., ensure_ascii=False) writes it inside a string.
JsonChar(c) ==
    IF c = 34 THEN <<92, 34>>
    ELSE IF c = 92 THEN <<92, 92>>
    ELSE IF c = 10 THEN <<92, 110>>
    ELSE IF c = 13 THEN <<92, 114>>
    ELSE IF c = 9 THEN <<92, 116>>
    ELSE IF c = 8 THEN <<92, 98>>
    ELSE IF c = 12 THEN <<92, 102>>
    ELSE IF c < 32
    THEN <<92, 117, 48, 48, 48 + (c \div 16),
           IF c % 16 < 10 THEN 48 + (c % 16) ELSE 87 + (c % 16)>>
    ELSE <<c>>

\* The characters of a string as JSON writes them between the quotes.
RECURSIVE JsonEscape(_)
JsonEscape(s) == IF s = <<>> THEN <<>> ELSE JsonChar(s[1]) \o JsonEscape(Tail(s))

\* json.dumps(lineups, ensure_ascii=False, indent=2)
json_dumps(rows) ==
    LET item(i) == <<32, 32, 123, 10, 32, 32, 32, 32, 34, 108, 105, 110, 101, 117, 112, 95, 105, 100, 34, 58, 32, 34>>
                   \o JsonEscape(rows[i].lineup_id)
                   \o <<34, 44, 10, 32, 32, 32, 32, 34, 108, 105, 110, 101, 117, 112, 95, 110, 97, 109, 101, 34, 58, 32, 34>>
                   \o JsonEscape(rows[i].lineup_name)
                   \o <<34, 10, 32, 32, 125>>
    IN IF rows = <<>> THEN <<91, 93>>
       ELSE <<91, 10>> \o JoinText(<<44, 10>>, [i \in 1..Len(rows) |-> item(i)])
            \o <<10, 93>>

\* The names of the files written.
LineupFiles == {"lineups.xml", "lineups.json", "lineups.csv"}

\* The text of a file that an earlier run left in a folder: "old"
OldLineups == <<111, 108, 100>>

\* The texts the provider answers with:
\*    1  the empty text
\*    2  an HTML page
\*    3  the daily-limit message
\*    4  a lineups document followed by the daily-limit message
\*    5  a lineups document
\*    6  a lineups document followed by HTML
\*    7  a document whose root is opened as LINEUPS and closed as lineups
\*    8  a document with a lineup element that is not closed
\*    9  a document with another root name
\*   10  a document in white space, with padded values, a quote, an element without
\*       id and text, an id that is no number and an empty element
\*   11  an opening tag without a closing tag
\*   12  an upper-case document
\*   13  a document with single quotes, white space around the equals sign, other
\*       attributes, a greater-than sign in a value and a tab in the id
\*   14  a document with entity and character references
\*   15  a document with comments, a processing instruction and a CDATA section
\*   16  a document with carriage returns in tags, text and a value
\*   17  a document with a prefix that is not declared
\*   18  a document in a default namespace
\*   19  a document with signed and underscored ids
\*   20  a document with an entity that is not defined
\*   21  a document with a declared prefix
\*   22  a document with the closing tag inside a comment
\*   23  a document with a no-break space and a digit that is not ASCII, both as
\*       character references
\*   24  a document with a namespace name that holds a closing brace
GlResponses ==
    <<<<>>,
      <<60, 104, 116, 109, 108, 62, 73, 110, 118, 97, 108, 105, 100, 32, 65,
        80, 73, 32, 107, 101, 121, 60, 47, 104, 116, 109, 108, 62>>,
      <<89, 111, 117, 32, 104, 97, 118, 101, 32, 114, 101, 97, 99, 104, 101,
        100, 32, 121, 111, 117, 114, 32, 108, 105, 109, 105, 116, 32, 111,
        102, 32, 53, 32, 100, 111, 119, 110, 108, 111, 97, 100, 115, 32, 112,
        101, 114, 32, 100, 97, 121, 46>>,
      <<60, 108, 105, 110, 101, 117, 112, 115, 62, 60, 108, 105, 110, 101,
        117, 112, 32, 105, 100, 61, 34, 49, 48, 34, 62, 66, 60, 47, 108, 105,
        110, 101, 117, 112, 62, 60, 108, 105, 110, 101, 117, 112, 32, 105,
        100, 61, 34, 57, 34, 62, 65, 60, 47, 108, 105, 110, 101, 117, 112,
        62, 60, 47, 108, 105, 110, 101, 117, 112, 115, 62, 10, 89, 111, 117,
        32, 104, 97, 118, 101, 32, 114, 101, 97, 99, 104, 101, 100, 32, 121,
        111, 117, 114, 32, 108, 105, 109, 105, 116, 32, 111, 102, 32, 53, 32,
        100, 111, 119, 110, 108, 111, 97, 100, 115, 32, 112, 101, 114, 32,
        100, 97, 121, 46>>,
      <<60, 108, 105, 110, 101, 117, 112, 115, 62, 60, 108, 105, 110, 101,
        117, 112, 32, 105, 100, 61, 34, 49, 48, 34, 62, 66, 60, 47, 108, 105,
        110, 101, 117, 112, 62, 60, 108, 105, 110, 101, 117, 112, 32, 105,
        100, 61, 34, 57, 34, 62, 65, 60, 47, 108, 105, 110, 101, 117, 112,
        62, 60, 47, 108, 105, 110, 101, 117, 112, 115, 62>>,
      <<60, 108, 105, 110, 101, 117, 112, 115, 62, 60, 108, 105, 110, 101,
        117, 112, 32, 105, 100, 61, 34, 49, 48, 34, 62, 66, 60, 47, 108, 105,
        110, 101, 117, 112, 62, 60, 108, 105, 110, 101, 117, 112, 32, 105,
        100, 61, 34, 57, 34, 62, 65, 60, 47, 108, 105, 110, 101, 117, 112,
        62, 60, 47, 108, 105, 110, 101, 117, 112, 115, 62, 10, 60, 112, 62,
        98, 121, 101, 60, 47, 112, 62>>,
      <<60, 76, 73, 78, 69, 85, 80, 83, 62, 60, 108, 105, 110, 101, 117, 112,
        32, 105, 100, 61, 34, 57, 34, 62, 65, 60, 47, 108, 105, 110, 101,
        117, 112, 62, 60, 47, 108, 105, 110, 101, 117, 112, 115, 62>>,
      <<60, 108, 105, 110, 101, 117, 112, 115, 62, 60, 108, 105, 110, 101,
        117, 112, 32, 105, 100, 61, 34, 57, 34, 62, 65, 60, 47, 108, 105,
        110, 101, 117, 112, 115, 62>>,
      <<60, 108, 105, 110, 101, 117, 112, 115, 120, 62, 60, 47, 108, 105,
        110, 101, 117, 112, 115, 120, 62>>,
      <<32, 10, 60, 108, 105, 110, 101, 117, 112, 115, 62, 10, 32, 60, 108,
        105, 110, 101, 117, 112, 32, 105, 100, 61, 34, 120, 34, 62, 67, 32,
        34, 113, 34, 60, 47, 108, 105, 110, 101, 117, 112, 62, 60, 108, 105,
        110, 101, 117, 112, 62, 60, 47, 108, 105, 110, 101, 117, 112, 62, 60,
        108, 105, 110, 101, 117, 112, 32, 105, 100, 61, 34, 32, 57, 32, 34,
        62, 32, 65, 32, 60, 47, 108, 105, 110, 101, 117, 112, 62, 60, 108,
        105, 110, 101, 117, 112, 62, 68, 60, 47, 108, 105, 110, 101, 117,
        112, 62, 60, 108, 105, 110, 101, 117, 112, 32, 105, 100, 61, 34, 55,
        34, 47, 62, 10, 60, 47, 108, 105, 110, 101, 117, 112, 115, 62, 10>>,
      <<60, 108, 105, 110, 101, 117, 112, 115, 62, 60, 108, 105, 110, 101,
        117, 112, 32, 105, 100, 61, 34, 57, 34, 62, 65, 60, 47, 108, 105,
        110, 101, 117, 112, 62>>,
      <<60, 76, 73, 78, 69, 85, 80, 83, 62, 60, 76, 73, 78, 69, 85, 80, 32,
        105, 100, 61, 34, 57, 34, 62, 65, 60, 47, 76, 73, 78, 69, 85, 80, 62,
        60, 47, 76, 73, 78, 69, 85, 80, 83, 62>>,
      <<60, 108, 105, 110, 101, 117, 112, 115, 32, 118, 61, 39, 49, 39, 62,
        60, 108, 105, 110, 101, 117, 112, 32, 110, 97, 109, 101, 61, 34, 97,
        62, 98, 34, 32, 105, 100, 32, 61, 32, 39, 49, 9, 50, 39, 32, 62, 88,
        60, 47, 108, 105, 110, 101, 117, 112, 62, 60, 47, 108, 105, 110, 101,
        117, 112, 115, 62>>,
      <<60, 108, 105, 110, 101, 117, 112, 115, 62, 60, 108, 105, 110, 101,
        117, 112, 32, 105, 100, 61, 34, 38, 35, 53, 51, 59, 34, 62, 65, 84,
        38, 97, 109, 112, 59, 84, 32, 38, 35, 120, 52, 49, 59, 38, 35, 49,
        51, 59, 60, 47, 108, 105, 110, 101, 117, 112, 62, 60, 47, 108, 105,
        110, 101, 117, 112, 115, 62>>,
      <<60, 108, 105, 110, 101, 117, 112, 115, 62, 60, 33, 45, 45, 32, 99,
        32, 45, 45, 62, 60, 63, 112, 32, 100, 63, 62, 60, 108, 105, 110, 101,
        117, 112, 32, 105, 100, 61, 34, 51, 34, 62, 65, 60, 33, 45, 45, 120,
        45, 45, 62, 66, 60, 33, 91, 67, 68, 65, 84, 65, 91, 60, 67, 62, 93,
        93, 62, 60, 98, 47, 62, 68, 60, 47, 108, 105, 110, 101, 117, 112, 62,
        60, 47, 108, 105, 110, 101, 117, 112, 115, 62>>,
      <<60, 108, 105, 110, 101, 117, 112, 115, 62, 13, 10, 60, 108, 105, 110,
        101, 117, 112, 32, 105, 100, 61, 34, 52, 13, 53, 34, 13, 62, 65, 13,
        10, 66, 13, 67, 60, 47, 108, 105, 110, 101, 117, 112, 13, 62, 13, 10,
        60, 47, 108, 105, 110, 101, 117, 112, 115, 62>>,
      <<60, 108, 105, 110, 101, 117, 112, 115, 62, 60, 97, 58, 108, 105, 110,
        101, 117, 112, 32, 105, 100, 61, 34, 49, 34, 62, 65, 60, 47, 97, 58,
        108, 105, 110, 101, 117, 112, 62, 60, 47, 108, 105, 110, 101, 117,
        112, 115, 62>>,
      <<60, 108, 105, 110, 101, 117, 112, 115, 32, 120, 109, 108, 110, 115,
        61, 34, 117, 34, 62, 60, 108, 105, 110, 101, 117, 112, 32, 105, 100,
        61, 34, 49, 34, 62, 65, 60, 47, 108, 105, 110, 101, 117, 112, 62, 60,
        47, 108, 105, 110, 101, 117, 112, 115, 62>>,
      <<60, 108, 105, 110, 101, 117, 112, 115, 62, 60, 108, 105, 110, 101,
        117, 112, 32, 105, 100, 61, 34, 55, 34, 62, 83, 60, 47, 108, 105,
        110, 101, 117, 112, 62, 60, 108, 105, 110, 101, 117, 112, 32, 105,
        100, 61, 34, 45, 53, 34, 62, 77, 60, 47, 108, 105, 110, 101, 117,
        112, 62, 60, 108, 105, 110, 101, 117, 112, 32, 105, 100, 61, 34, 49,
        95, 48, 34, 62, 85, 60, 47, 108, 105, 110, 101, 117, 112, 62, 60,
        108, 105, 110, 101, 117, 112, 32, 105, 100, 61, 34, 43, 54, 34, 62,
        80, 60, 47, 108, 105, 110, 101, 117, 112, 62, 60, 108, 105, 110, 101,
        117, 112, 32, 105, 100, 61, 34, 56, 95, 34, 62, 84, 60, 47, 108, 105,
        110, 101, 117, 112, 62, 60, 47, 108, 105, 110, 101, 117, 112, 115,
        62>>,
      <<60, 108, 105, 110, 101, 117, 112, 115, 62, 60, 108, 105, 110, 101,
        117, 112, 32, 105, 100, 61, 34, 49, 34, 62, 65, 38, 110, 98, 115,
        112, 59, 66, 60, 47, 108, 105, 110, 101, 117, 112, 62, 60, 47, 108,
        105, 110, 101, 117, 112, 115, 62>>,
      <<60, 108, 105, 110, 101, 117, 112, 115, 32, 120, 109, 108, 110, 115,
        58, 97, 61, 34, 117, 34, 62, 60, 97, 58, 108, 105, 110, 101, 117,
        112, 32, 105, 100, 61, 34, 49, 34, 62, 78, 60, 47, 97, 58, 108, 105,
        110, 101, 117, 112, 62, 60, 108, 105, 110, 101, 117, 112, 32, 97, 58,
        105, 100, 61, 34, 50, 34, 32, 105, 100, 61, 34, 56, 34, 62, 75, 60,
        47, 108, 105, 110, 101, 117, 112, 62, 60, 47, 108, 105, 110, 101,
        117, 112, 115, 62>>,
      <<60, 108, 105, 110, 101, 117, 112, 115, 62, 60, 33, 45, 45, 32, 60,
        47, 108, 105, 110, 101, 117, 112, 115, 62, 32, 45, 45, 62, 60, 108,
        105, 110, 101, 117, 112, 32, 105, 100, 61, 34, 49, 34, 62, 65, 60,
        47, 108, 105, 110, 101, 117, 112, 62, 60, 47, 108, 105, 110, 101,
        117, 112, 115, 62>>,
      <<60, 108, 105, 110, 101, 117, 112, 115, 62, 60, 108, 105, 110, 101,
        117, 112, 32, 105, 100, 61, 34, 49, 50, 34, 62, 76, 60, 47, 108, 105,
        110, 101, 117, 112, 62, 60, 108, 105, 110, 101, 117, 112, 32, 105,
        100, 61, 34, 38, 35, 49, 54, 51, 53, 59, 34, 62, 38, 35, 49, 54, 48,
        59, 90, 38, 35, 49, 54, 48, 59, 60, 47, 108, 105, 110, 101, 117, 112,
        62, 60, 47, 108, 105, 110, 101, 117, 112, 115, 62>>,
      <<60, 108, 105, 110, 101, 117, 112, 115, 32, 120, 109, 108, 110, 115,
        58, 97, 61, 34, 117, 125, 118, 34, 62, 60, 108, 105, 110, 101, 117,
        112, 32, 105, 100, 61, 34, 49, 34, 62, 65, 60, 47, 108, 105, 110,
        101, 117, 112, 62, 60, 47, 108, 105, 110, 101, 117, 112, 115, 62>>>>

\* The three files of a folder after the three atomic_write_text calls of main.
LineupsWritten(lineups_xml, rows) ==
    [f \in LineupFiles |->
        IF f = "lineups.xml" THEN lineups_xml
        ELSE IF f = "lineups.json" THEN json_dumps(rows)
        ELSE csv_text(rows)]

\* The state in which main is called: the key set or not, the publish folder with
\* any of its three files left by an earlier run, the audit folder new (a folder
\* named by the time stamp) or, with --out-dir, holding the files of an earlier run.
GlInit ==
    /\ gl_key \in EnvKeys
    /\ gl_raw = <<>>
    /\ gl_pub \in [LineupFiles -> {<<>>, OldLineups}]
    /\ gl_audit \in {[f \in LineupFiles |-> <<>>], [f \in LineupFiles |-> OldLineups]}
    /\ gl_stdout = <<>>
    /\ gl_rc = <<>>
    /\ gl_pc = "start"

\* get_api_key: die("Missing env var API_XMLTVLISTING_KEY"), exit code 1.
GlDie ==
    /\ gl_pc = "start"
    /\ Strip(gl_key) = <<>>
    /\ gl_rc' = <<1>>
    /\ gl_pc' = "done"
    /\ UNCHANGED <<gl_key, gl_raw, gl_pub, gl_audit, gl_stdout>>
    /\ UNCHANGED notGlVars

\* http_get raises (requests.get fails or raise_for_status): the exception leaves
\* main, the process ends with exit code 1.
GlHttpError ==
    /\ gl_pc = "start"
    /\ Strip(gl_key) # <<>>
    /\ gl_rc' = <<1>>
    /\ gl_pc' = "done"
    /\ UNCHANGED <<gl_key, gl_raw, gl_pub, gl_audit, gl_stdout>>
    /\ UNCHANGED notGlVars

\* raw_text = http_get(url, timeout=600)
GlFetch(text) ==
    /\ gl_pc = "start"
    /\ Strip(gl_key) # <<>>
    /\ gl_raw' = <<text>>
    /\ gl_pc' = "fetched"
    /\ UNCHANGED <<gl_key, gl_pub, gl_audit, gl_stdout, gl_rc>>
    /\ UNCHANGED notGlVars

\* if not lineups_xml: print("SKIP (invalid): lineups.xml"); return 2
GlSkipInvalid ==
    /\ gl_pc = "fetched"
    /\ extract_lineups_xml(gl_raw[1]) = <<>>
    /\ gl_stdout' = Append(gl_stdout, <<"SKIP (invalid):", "lineups.xml">>)
    /\ gl_rc' = <<2>>
    /\ gl_pc' = "done"
    /\ UNCHANGED <<gl_key, gl_raw, gl_pub, gl_audit>>
    /\ UNCHANGED notGlVars

\* except Exception: print("SKIP (parse error): lineups.xml"); return 2
GlSkipParseError ==
    /\ gl_pc = "fetched"
    /\ extract_lineups_xml(gl_raw[1]) # <<>>
    /\ ~parse_lineups(extract_lineups_xml(gl_raw[1])[1]).ok
    /\ gl_stdout' = Append(gl_stdout, <<"SKIP (parse error):", "lineups.xml">>)
    /\ gl_rc' = <<2>>
    /\ gl_pc' = "done"
    /\ UNCHANGED <<gl_key, gl_raw, gl_pub, gl_audit>>
    /\ UNCHANGED notGlVars

\* The rest of main: the three audit files, the three publish files, the six
\* "Wrote:" lines, return 0.
GlWrite ==
    /\ gl_pc = "fetched"
    /\ extract_lineups_xml(gl_raw[1]) # <<>>
    /\ LET lineups_xml == extract_lineups_xml(gl_raw[1])[1]
           got == parse_lineups(lineups_xml)
       IN /\ got.ok
          /\ gl_audit' = LineupsWritten(lineups_xml, got.rows)
          /\ gl_pub' = LineupsWritten(lineups_xml, got.rows)
    /\ gl_stdout' = gl_stdout \o
           <<<<"Wrote:", "out_dir/lineups.xml">>, <<"Wrote:", "out_dir/lineups.json">>,
             <<"Wrote:", "out_dir/lineups.csv">>, <<"Wrote:", "pub/lineups.xml">>,
             <<"Wrote:", "pub/lineups.json">>, <<"Wrote:", "pub/lineups.csv">>>>
    /\ gl_rc' = <<0>>
    /\ gl_pc' = "done"
    /\ UNCHANGED <<gl_key, gl_raw>>
    /\ UNCHANGED notGlVars

GlNext ==
    \/ GlDie
    \/ GlHttpError
    \/ \E i \in DOMAIN GlResponses : GlFetch(GlResponses[i])
    \/ GlSkipInvalid
    \/ GlSkipParseError
    \/ GlWrite

InitLineups == GlInit /\ AnIdle /\ PrIdle /\ KbIdle /\ LdIdle /\ FtIdle /\ MpIdle

SpecLineups == InitLineups /\ [][GlNext]_vars

(***************************************************************************)
(* apply_channel_mapping_to_channels_json.main.  A JSON object is a        *)
(* function from its keys to its values, a CSV row a record of its cells;  *)
(* a file is kept as the document it holds, in a sequence that is empty    *)
(* when the file does not exist.  Texts are ASCII, on which casefold() is  *)
(* Lower.                                                                  *)
(***************************************************************************)
\* The rows of channel_name_map.csv followed:
\*   "ESPN" -> "Sports", specialty, US;   " espn " -> no canonical name, local, CA, East;
\*   "CNN" -> " News ", specialty, West;  a blank variant;  "HBO" with four empty cells.
MapRowPool ==
    {[variant_name |-> <<69, 83, 80, 78>>, canonical_name |-> <<83, 112, 111, 114, 116, 115>>, type |-> <<115, 112, 101, 99, 105, 97, 108, 116, 121>>,
       country |-> <<85, 83>>, feed |-> <<>>],
     [variant_name |-> <<32, 101, 115, 112, 110, 32>>, canonical_name |-> <<>>, type |-> <<108, 111, 99, 97, 108>>,
       country |-> <<67, 65>>, feed |-> <<69, 97, 115, 116>>],
     [variant_name |-> <<67, 78, 78>>, canonical_name |-> <<32, 78, 101, 119, 115, 32>>, type |-> <<115, 112, 101, 99, 105, 97, 108, 116, 121>>,
       country |-> <<>>, feed |-> <<87, 101, 115, 116>>],
     [variant_name |-> <<32, 32>>, canonical_name |-> <<66, 108, 97, 110, 107>>, type |-> <<108, 111, 99, 97, 108>>,
       country |-> <<85, 83>>, feed |-> <<>>],
     [variant_name |-> <<72, 66, 79>>, canonical_name |-> <<>>, type |-> <<>>,
       country |-> <<>>, feed |-> <<>>]}

\* The records of channels.json followed: display names "espn"; "FOX", " cnn", "ESPN"
\* without full_name; "Espn", "CNN"; none; "HBO"; " ", "hbo", "FOX" without full_name.
ChannelPool ==
    {("display_names" :> <<<<101, 115, 112, 110>>>> @@ "full_name" :> <<101, 115, 112, 110>>),
     ("display_names" :> <<<<70, 79, 88>>, <<32, 99, 110, 110>>, <<69, 83, 80, 78>>>>),
     ("display_names" :> <<<<69, 115, 112, 110>>, <<67, 78, 78>>>> @@ "full_name" :> <<69, 115, 112, 110>>),
     ("display_names" :> <<>> @@ "full_name" :> <<>>),
     ("display_names" :> <<<<72, 66, 79>>>> @@ "full_name" :> <<72, 66, 79>>),
     ("display_names" :> <<<<32>>, <<104, 98, 111>>, <<70, 79, 88>>>>)}

\* All sequences over S of length at most n.
SeqsUpTo(S, n) == UNION {[1..k -> S] : k \in 0..n}

\* The entry that load_map stores for a row.
MapEntry(r) ==
    [canonical_name |-> Strip(r.canonical_name), type |-> Strip(r.type),
     country |-> Strip(r.country), feed |-> Strip(r.feed)]

\* load_map: variant_name.strip().casefold() -> entry; rows with a blank variant are
\* skipped and a later row of the same key replaces an earlier one.
load_map(rows) ==
    LET key(i) == Lower(Strip(rows[i].variant_name))
        used == {i \in 1..Len(rows) : Strip(rows[i].variant_name) # <<>>}
    IN [k \in {key(i) : i \in used} |->
           MapEntry(rows[CHOOSE i \in used : key(i) = k /\ \A j \in used : key(j) = k => j <= i])]

\* ch.get(k) or "" / or []: the value of a key, dflt where the key is missing.
GetOr(ch, k, dflt) == IF k \in DOMAIN ch THEN ch[k] ELSE dflt

\* Mutant: the last display name found in the mapping decides.
Found_last_name(map, ch) ==
    LET dns == GetOr(ch, "display_names", <<>>)
        hits == {i \in 1..Len(dns) : Lower(Strip(dns[i])) \in DOMAIN map}
    IN IF hits = {} THEN <<>>
       ELSE <<map[Lower(Strip(dns[CHOOSE i \in hits : \A j \in hits : j <= i]))]>>

\* found, after the loop over dns: <<>> for None, else the entry of the first display
\* name whose key is in the mapping.
Found(map, ch) ==
    LET dns == GetOr(ch, "display_names", <<>>)
        hits == {i \in 1..Len(dns) : Lower(Strip(dns[i])) \in DOMAIN map}
    IN IF hits = {} THEN <<>>
       ELSE <<map[Lower(Strip(dns[CHOOSE i \in hits : \A j \in hits : i <= j]))]>>

\* The keys that main adds to a matched record.
MappingFields == {"canonical_name", "mapping_type", "mapping_country", "mapping_feed"}

\* The body of the loop over channels, for one record.
Enriched(map, ch) ==
    LET found == Found(map, ch)
        e == found[1]
        full == GetOr(ch, "full_name", <<>>)
    IN IF found = <<>> THEN ch
       ELSE [k \in DOMAIN ch \cup MappingFields |->
                IF k = "canonical_name"
                THEN (IF e.canonical_name # <<>> THEN e.canonical_name ELSE full)
                ELSE IF k = "mapping_type" THEN e.type
                ELSE IF k = "mapping_country" THEN e.country
                ELSE IF k = "mapping_feed" THEN e.feed
                ELSE ch[k]]

\* The state in which main is called: each input file missing or holding up to
\* MaxRecords rows or records.
MpInit ==
    /\ mp_channels_file \in {<<>>} \cup {<<s>> : s \in SeqsUpTo(ChannelPool, MaxRecords)}
    /\ mp_map_file \in {<<>>} \cup {<<s>> : s \in SeqsUpTo(MapRowPool, MaxRecords)}
    /\ mp_mapping = <<>>
    /\ mp_channels = <<>>
    /\ mp_idx = 0
    /\ mp_iptv_out = <<>>
    /\ mp_rep_out = <<>>
    /\ mp_rc = <<>>
    /\ mp_pc = "start"

\* if not channels_path.exists(): return 1 / if not map_path.exists(): return 1
MpMissing ==
    /\ mp_pc = "start"
    /\ mp_channels_file = <<>> \/ mp_map_file = <<>>
    /\ mp_rc' = <<1>>
    /\ mp_pc' = "done"
    /\ UNCHANGED <<mp_channels_file, mp_map_file, mp_mapping, mp_channels, mp_idx,
                   mp_iptv_out, mp_rep_out>>
    /\ UNCHANGED notMpVars

\* mapping = load_map(map_path); channels = json.loads(...)
MpLoad ==
    /\ mp_pc = "start"
    /\ mp_channels_file # <<>> /\ mp_map_file # <<>>
    /\ mp_mapping' = load_map(mp_map_file[1])
    /\ mp_channels' = mp_channels_file[1]
    /\ mp_idx' = 1
    /\ mp_pc' = "loop"
    /\ UNCHANGED <<mp_channels_file, mp_map_file, mp_iptv_out, mp_rep_out, mp_rc>>
    /\ UNCHANGED notMpVars

\* One pass of "for ch in channels".
MpEnrich ==
    /\ mp_pc = "loop"
    /\ mp_idx <= Len(mp_channels)
    /\ mp_channels' = [mp_channels EXCEPT ![mp_idx] = Enriched(mp_mapping, mp_channels[mp_idx])]
    /\ mp_idx' = mp_idx + 1
    /\ UNCHANGED <<mp_channels_file, mp_map_file, mp_mapping, mp_iptv_out, mp_rep_out,
                   mp_rc, mp_pc>>
    /\ UNCHANGED notMpVars

\* After the loop: the two channels.enriched.json files, return 0.
MpWrite ==
    /\ mp_pc = "loop"
    /\ mp_idx > Len(mp_channels)
    /\ mp_iptv_out' = <<mp_channels>>
    /\ mp_rep_out' = <<mp_channels>>
    /\ mp_rc' = <<0>>
    /\ mp_pc' = "done"
    /\ UNCHANGED <<mp_channels_file, mp_map_file, mp_mapping, mp_channels, mp_idx>>
    /\ UNCHANGED notMpVars

MpNext ==
    \/ MpMissing
    \/ MpLoad
    \/ MpEnrich
    \/ MpWrite

InitMapping == MpInit /\ AnIdle /\ PrIdle /\ KbIdle /\ LdIdle /\ FtIdle /\ GlIdle

SpecMapping == InitMapping /\ [][MpNext]_vars

(***************************************************************************)
(* Properties of the analysers (checked under Spec).                       *)
(***************************************************************************)
\* The cell of lineup keys[i] against lineup keys[j] in a written matrix file
\* (row 1 is the header, column 1 the row label).
Cell(file, i, j) == file[i + 1][j + 1]

N == Len(keys)

MatricesWritten == csv.counts # <<>> /\ csv.jaccard # <<>>

\* The channel ids listed in a unique_channels file (its rows after the header).
ListedIds(file) == {file[i][1] : i \in 2..Len(file)}

ChannelSet(k) == DOMAIN parsed[k]

\* C1: the intersection count and the Jaccard similarity are symmetric, so the
\* written count and similarity matrices equal their transposes.
C1_Symmetric ==
    /\ \A a, b \in Range(keys) :
          /\ Cardinality(sets[a] \cap sets[b]) = Cardinality(sets[b] \cap sets[a])
          /\ FloatEq(Similarity(tool, sets[a], sets[b]), Similarity(tool, sets[b], sets[a]))
    /\ MatricesWritten =>
          \A i, j \in 1..N :
             /\ Cell(csv.counts, i, j) = Cell(csv.counts, j, i)
             /\ Cell(csv.jaccard, i, j) = Cell(csv.jaccard, j, i)

\* C1 witness: the matrices are written for two lineups that overlap in part.
C1_Witness ==
    /\ MatricesWritten
    /\ \E a, b \in Range(keys) :
          /\ sets[a] \cap sets[b] # {}
          /\ sets[a] \ sets[b] # {}
          /\ Cardinality(sets[a]) # Cardinality(sets[b])

\* C2: the diagonal of the count matrix is the number of channel ids of the lineup,
\* and the diagonal similarity is 1.0 for a lineup with at least one channel.
C2_Diagonal ==
    MatricesWritten =>
       \A i \in 1..N :
          /\ Cell(csv.counts, i, i) = Str(Cardinality(ChannelSet(keys[i])))
          /\ ChannelSet(keys[i]) # {} =>
                /\ Cell(csv.jaccard, i, i) = <<49, 46, 48, 48, 48, 48>>
                /\ Similarity(tool, sets[keys[i]], sets[keys[i]])
                      = Ratio(Cardinality(ChannelSet(keys[i])), Cardinality(ChannelSet(keys[i])))

\* C2 witness: the matrices are written for a lineup of two or more channels next to
\* an empty one.
C2_Witness ==
    /\ MatricesWritten
    /\ \E a, b \in Range(keys) : Cardinality(ChannelSet(a)) >= 2 /\ ChannelSet(b) = {}

\* C3: every similarity computed for a matrix row follows the boundary policy: two
\* empty sets give 1.0, exactly one empty set gives 0.0, otherwise the value is
\* |A n B| / |A u B| with a non-zero denominator.
C3_JaccardPolicy ==
    \A i \in 1..Len(matrix_jacc) : \A j \in 1..N :
       LET A == ChannelSet(keys[i])
           B == ChannelSet(keys[j])
           q == Similarity(tool, A, B)
           cell == matrix_jacc[i][j + 1]
       IN /\ q[2] # 0
          /\ cell = Fixed4(q)
          /\ (A = {} /\ B = {}) => (q[1] = q[2] /\ cell = <<49, 46, 48, 48, 48, 48>>)
          /\ ((A = {}) # (B = {})) => (q[1] = 0 /\ cell = <<48, 46, 48, 48, 48, 48>>)
          /\ (A # {} /\ B # {}) =>
                /\ Cardinality(A \cup B) # 0
                /\ q[1] * Cardinality(A \cup B) = Cardinality(A \cap B) * q[2]

\* C3 witness: a finished matrix holds a pair of empty lineups, a pair with exactly
\* one empty lineup and a pair of overlapping non-empty lineups.
C3_Witness ==
    /\ Len(matrix_jacc) = 3
    /\ \E a, b, c \in Range(keys) :
          /\ a # c
          /\ ChannelSet(a) = {}
          /\ ChannelSet(c) = {}
          /\ Cardinality(ChannelSet(b)) >= 2
    /\ N = 3

\* C4: in a collection of more than one lineup, the unique list written for L is
\* channel_set(L) minus the union of the other lineups' channel sets, and shares no
\* channel id with any other lineup.
C4_UniqueAgainstOthers ==
    N > 1 =>
       \A i \in 1..Len(csv.unique) :
          LET L == csv.unique[i][1]
              file == csv.unique[i][2]
          IN /\ L = keys[i]
             /\ ListedIds(file) =
                   ChannelSet(L) \ UNION {ChannelSet(X) : X \in DOMAIN parsed \ {L}}
             /\ Len(file) - 1 = Cardinality(ListedIds(file))
             /\ \A X \in DOMAIN parsed \ {L} : ListedIds(file) \cap ChannelSet(X) = {}

\* C4 witness: with three lineups, a unique list is written for a lineup that has a
\* channel of its own, one shared with the second lineup only and one shared with
\* the third only.
C4_Witness ==
    /\ N = 3
    /\ \E i \in 1..Len(csv.unique) :
          LET L == csv.unique[i][1]
          IN /\ ListedIds(csv.unique[i][2]) # {}
             /\ \E X, Y \in DOMAIN parsed \ {L} :
                   /\ X # Y
                   /\ (ChannelSet(L) \cap ChannelSet(X)) \ ChannelSet(Y) # {}
                   /\ (ChannelSet(L) \cap ChannelSet(Y)) \ ChannelSet(X) # {}

\* C5: with exactly one lineup L the uniqueness step reports every channel of L as
\* unique, and the run goes on to its return.
C5_SingleLineup ==
    N = 1 =>
       /\ \A i \in 1..Len(csv.unique) :
             /\ csv.unique[i][1] = keys[1]
             /\ ListedIds(csv.unique[i][2]) = ChannelSet(keys[1])
             /\ Len(csv.unique[i][2]) - 1 = Cardinality(ChannelSet(keys[1]))
       /\ pc = "unique" => (ENABLED UniqueFile \/ ENABLED Return)
       /\ pc = "done" => Len(csv.unique) = 1

\* C5 witness: a run over one lineup of two or more channels has returned.
C5_Witness ==
    /\ N = 1
    /\ pc = "done"
    /\ Cardinality(ChannelSet(keys[1])) >= 2
    /\ Len(csv.unique) = 1

\* C10: a second run over the same lineup contents in the same order writes the same
\* count matrix, similarity matrix and unique lists as the first, value by value.
C10_RepeatableRun ==
    /\ (run = 2 /\ pc = "done") => csv = first_csv
    /\ (run = 2 /\ MatricesWritten) =>
          (csv.counts = first_csv.counts /\ csv.jaccard = first_csv.jaccard)
    /\ run = 2 =>
          \A i \in 1..Len(csv.unique) : csv.unique[i] = first_csv.unique[i]

\* C10 witness: the second run has returned and some unique list has two or more
\* channels, so the order of the set iteration could have shown.
C10_Witness ==
    /\ run = 2
    /\ pc = "done"
    /\ N >= 2
    /\ \E i \in 1..Len(csv.unique) : Len(csv.unique[i][2]) >= 3

(***************************************************************************)
(* Properties of the primary-baseline reports (checked under SpecPrimary). *)
(***************************************************************************)
\* The channel ids of the lines of a REMOVE or KEEP list.
LineIds(lines) == {lines[i][3] : i \in 1..Len(lines)}

\* The channel count of a loaded lineup.
Count(x) == Cardinality(DOMAIN lineup_data[x])

\* The blocks whose group's channel maps are loaded (every block of
\* channels_overlap_report, the block of the group being rendered otherwise).
LoadedBlocks ==
    {b \in 1..Len(remove_txt) :
        Range(Members(pr_tool, remove_txt[b].group)) \subseteq DOMAIN lineup_data}

\* The blocks whose member loop has ended.
CompleteBlocks ==
    {b \in 1..Len(remove_txt) : b < Len(remove_txt) \/ pr_pc \in {"group", "done"}}

\* C6: for every non-primary lineup L of a group, REMOVE and KEEP partition the
\* channel ids of L, and REMOVE is the ids L shares with the group's primary P.
C6_RemoveKeepPartition ==
    \A b \in LoadedBlocks : \A s \in 1..Len(remove_txt[b].sections) :
       LET sec == remove_txt[b].sections[s]
           L == sec.lineup
           P == remove_txt[b].primary
           rem == LineIds(sec.remove)
           kp == LineIds(sec.keep)
       IN /\ rem \cup kp = DOMAIN lineup_data[L]
          /\ rem \cap kp = {}
          /\ rem = DOMAIN lineup_data[L] \cap DOMAIN lineup_data[P]
          /\ Len(sec.remove) = Cardinality(rem)
          /\ Len(sec.keep) = Cardinality(kp)

\* C6 witness: the report is written with the section of a lineup that has a channel
\* in REMOVE and another in KEEP, its primary carrying a channel the lineup lacks.
C6_Witness ==
    /\ pr_pc = "done"
    /\ \E b \in LoadedBlocks : \E s \in 1..Len(remove_txt[b].sections) :
          LET sec == remove_txt[b].sections[s]
          IN /\ sec.remove # <<>>
             /\ sec.keep # <<>>
             /\ DOMAIN lineup_data[remove_txt[b].primary] \ DOMAIN lineup_data[sec.lineup] # {}

\* C7: the primary of a group has the maximum channel count of the group, and among
\* the lineups with that count it is the first in the group's member order.
C7_PrimaryFirstMax ==
    \A b \in LoadedBlocks :
       LET members == Members(pr_tool, remove_txt[b].group)
           P == remove_txt[b].primary
       IN \E i \in 1..Len(members) :
             /\ members[i] = P
             /\ \A j \in 1..Len(members) : Count(members[j]) <= Count(P)
             /\ \A j \in 1..(i - 1) : Count(members[j]) < Count(P)

\* C7 witness: the second and third lineup of a group tie for the maximum count,
\* above the first, and the second is the primary.
C7_Witness ==
    \E b \in LoadedBlocks :
       LET members == Members(pr_tool, remove_txt[b].group)
       IN /\ Len(members) = 3
          /\ Count(members[2]) = Count(members[3])
          /\ Count(members[1]) < Count(members[2])
          /\ remove_txt[b].primary = members[2]
          /\ pr_pc = "done"

\* C8: the primary of a group gets no REMOVE/KEEP section: the lineups with a section
\* are the group's own members other than its primary, each once and in member order,
\* whatever the other group holds.
C8_PrimaryHasNoSection ==
    \A b \in 1..Len(remove_txt) :
       LET members == Members(pr_tool, remove_txt[b].group)
           P == remove_txt[b].primary
           NotPrimary(x) == x # P
           split == [s \in 1..Len(remove_txt[b].sections) |->
                        remove_txt[b].sections[s].lineup]
       IN /\ P \in Range(members)
          /\ Range(split) \subseteq Range(members) \ {P}
          /\ b \in CompleteBlocks => split = SelectSeq(members, NotPrimary)

\* C8 witness: channels_overlap_report has written its report, and a lineup of the
\* other group has more channels than the primary of the first group.
C8_Witness ==
    /\ pr_pc = "done"
    /\ pr_tool = OverlapReport
    /\ Len(remove_txt) = 2
    /\ Count(remove_txt[1].primary) >= 1
    /\ Count(remove_txt[2].primary) > Count(remove_txt[1].primary)
    /\ Len(remove_txt[1].sections) = 1
    /\ Len(remove_txt[2].sections) = 2

(***************************************************************************)
(* Properties of the base-lineup reports (checked under SpecBase).         *)
(***************************************************************************)
\* The report of the run with BASE_LINEUP_ID as in the source.
ConfiguredReport == IF kb_run = 2 THEN first_report ELSE report

\* The channel ids of the catalog file of the i-th section of a report.
SectionChannels(i) == xml_files[KbFiles(kb_tool, DOMAIN xml_files)[i]]

\* Both runs have written their report.
BothReportsWritten == kb_run = 2 /\ kb_pc = "done"

\* C9: the lineup whose id is BASE_LINEUP_ID is reported keep-all / remove-none
\* whatever the channel counts, and every other lineup gets the keep and remove
\* lists it gets when no lineup is the base lineup.
C9_BaseLineupOverride ==
    /\ \A i \in 1..Len(ConfiguredReport) :
          LET sec == ConfiguredReport[i]
          IN sec.lineup = BASE_LINEUP_ID =>
                sec = [lineup |-> BASE_LINEUP_ID,
                       total |-> Cardinality(SectionChannels(i)),
                       keep_all |-> Cardinality(SectionChannels(i)),
                       remove_none |-> TRUE]
    /\ BothReportsWritten =>
          /\ Len(report) = Len(first_report)
          /\ \A i \in 1..Len(report) :
                /\ report[i].lineup = first_report[i].lineup
                /\ "keep" \in DOMAIN report[i]
                /\ report[i].lineup # BASE_LINEUP_ID => report[i] = first_report[i]

\* C9 witness: both runs are over; the base lineup has fewer channels than another
\* lineup, which keeps one channel and removes another.
C9_Witness ==
    /\ BothReportsWritten
    /\ \E i, j \in 1..Len(first_report) :
          /\ first_report[i].lineup = BASE_LINEUP_ID
          /\ first_report[j].lineup # BASE_LINEUP_ID
          /\ first_report[i].total < first_report[j].total
          /\ first_report[i].total > 0
          /\ first_report[j].keep # <<>>
          /\ first_report[j].remove # <<>>
          /\ report[i].remove # <<>>

(***************************************************************************)
(* Further properties of the analysers (checked under Spec).               *)
(***************************************************************************)
\* The row labels of a written matrix, and its column headers after "lineup_id".
RowLabels(file) == [i \in 1..(Len(file) - 1) |-> file[i + 1][1]]
ColumnHeaders(file) == Tail(file[1])

\* C11: in both matrices the i-th row label is the i-th column header, both are the
\* lineup order fixed at the start of the run (keys, also the order of the summary),
\* and no later step of the run changes that order, the order in which the files
\* were read or the files.
C11_OneLineupOrder ==
    /\ [](/\ \A i \in 1..Len(matrix_counts) :
                matrix_counts[i][1] = keys[i] /\ matrix_jacc[i][1] = keys[i]
          /\ MatricesWritten =>
                /\ RowLabels(csv.counts) = keys
                /\ ColumnHeaders(csv.counts) = keys
                /\ RowLabels(csv.jaccard) = keys
                /\ ColumnHeaders(csv.jaccard) = keys
                /\ RowLabels(csv.summary) = keys)
    /\ [][/\ in_dir' = in_dir
          /\ pc \notin {"main", "done"} => order' = order
          /\ pc \notin {"start", "done"} => keys' = keys]_vars

\* C11 witness: the matrices of three lineups are written, in an order that is not
\* the order in which the files were read.
C11_Witness ==
    /\ MatricesWritten
    /\ N = 3
    /\ keys # order
    /\ pc = "done"

\* C12: the lineup order of the rows and columns is ascending by the numeric value
\* of the lineup id, ids of equal value in the order of their text (every lineup id
\* the two tools read from a file name is a digit string).
C12_NumericThenText ==
    \A i, j \in 1..Len(keys) :
       i < j =>
          \/ IntOf(keys[i]) < IntOf(keys[j])
          \/ IntOf(keys[i]) = IntOf(keys[j]) /\ StrLess(keys[i], keys[j])

\* The similarity texts written so far: the cells of the rows built and of the
\* similarity matrix written.
EmittedSimilarities ==
    {matrix_jacc[i][j + 1] : i \in 1..Len(matrix_jacc), j \in 1..N}
    \cup (IF csv.jaccard = <<>> THEN {}
          ELSE {Cell(csv.jaccard, i, j) : i, j \in 1..N})

\* text is a decimal numeral with exactly p decimals: digits, one point, p digits.
IsFixed(text, p) ==
    /\ Len(text) >= p + 2
    /\ text[Len(text) - p] = 46
    /\ \A i \in 1..Len(text) : i # Len(text) - p => IsDigitChar(text[i])

\* The number of decimals the caller of the run chose, 4 for a caller who chose none.
ChosenPrecision == IF argv = <<>> THEN 4 ELSE IntOf(argv[2])

\* C13: a caller can choose a precision from 2 to 6 digits, and 4 digits are used
\* when the caller chooses none: a run over a folder with lineup files is not turned
\* away for the caller's choice, and every similarity value it writes is decimal text
\* with the chosen number of decimals.
C13_CallerChosenPrecision ==
    /\ pc = "exit" => InputFiles(tool, DOMAIN in_dir) = <<>>
    /\ \A text \in EmittedSimilarities : IsFixed(text, ChosenPrecision)

\* The rows of the i-th unique_channels file written (its lines after the header).
UniqueList(i) == Tail(csv.unique[i][2])

\* The order of the claim on the rows <<channel id, display name>>: named rows
\* first, by display name compared without case, then by the raw channel id.
NameThenIdKey(row) ==
    <<IF row[2] # <<>> THEN 0 ELSE 1>> \o Lower(row[2]) \o <<0>> \o row[1]

\* C14 as stated: every unique-channel list is ascending by display name compared
\* case-insensitively, ids without a display name after all named ones, the raw
\* channel id as the last tie-break.
C14_OrderedByDisplayName ==
    \A f \in 1..Len(csv.unique) : \A i, j \in 1..Len(UniqueList(f)) :
       i < j => StrLess(NameThenIdKey(UniqueList(f)[i]), NameThenIdKey(UniqueList(f)[j]))

\* C14 amended: every unique-channel list the analysers write is ascending by the
\* raw channel id, which is a total order on the ids; display names play no part.
C14_OrderedByChannelId ==
    \A f \in 1..Len(csv.unique) : \A i, j \in 1..Len(UniqueList(f)) :
       i < j => StrLess(UniqueList(f)[i][1], UniqueList(f)[j][1])

\* C14 witness: a unique-channel list holds an id without a display name before a
\* named one.
C14_Witness ==
    \E f \in 1..Len(csv.unique) : \E i, j \in 1..Len(UniqueList(f)) :
       /\ i < j
       /\ UniqueList(f)[i][2] = <<>>
       /\ UniqueList(f)[j][2] # <<>>

(***************************************************************************)
(* Properties of the loaders (checked under SpecLoad).                     *)
(***************************************************************************)
\* The id attribute of the element is missing or holds white space only.
BlankId(rec) == rec.id = <<>> \/ \A i \in 1..Len(rec.id[1]) : IsSpace(rec.id[1][i])

\* k is the text of the id attribute without the white space around it.
IsTrimmed(k, text) ==
    /\ k # <<>>
    /\ ~IsSpace(k[1]) /\ ~IsSpace(k[Len(k)])
    /\ \E a \in 0..Len(text) :
          /\ a + Len(k) <= Len(text)
          /\ SubSeq(text, a + 1, a + Len(k)) = k
          /\ \A i \in 1..Len(text) : (i <= a \/ i > a + Len(k)) => IsSpace(text[i])

\* C15: a channel map never holds an empty or blank channel id; an element whose id
\* is missing or blank is dropped, the loop goes on to the end of the file, and
\* every other element read so far has its trimmed id in the map.
C15_NoBlankChannelId ==
    /\ \A k \in DOMAIN ld_channels : k # <<>> /\ \E i \in 1..Len(k) : ~IsSpace(k[i])
    /\ \A i \in 1..(rec_idx - 1) :
          IF BlankId(records[i])
          THEN \A k \in DOMAIN ld_channels :
                  \E j \in 1..(rec_idx - 1) :
                     ~BlankId(records[j]) /\ IsTrimmed(k, records[j].id[1])
          ELSE \E k \in DOMAIN ld_channels : IsTrimmed(k, records[i].id[1])
    /\ ld_pc = "done" => rec_idx = Len(records) + 1

\* C15 witness: a file with a blank id followed by a padded id has been read to its
\* end, and the map holds the one trimmed id.
C15_Witness ==
    /\ ld_pc = "done"
    /\ Len(records) = 2
    /\ records[1].id = <<<<32>>>>
    /\ records[2].id = <<<<9, 32, 49, 13>>>>
    /\ DOMAIN ld_channels = {<<49>>}

\* The unique_channels file written for lineup k, if it is written already.
UniqueFilesOf(k) == {i \in 1..Len(csv.unique) : csv.unique[i][1] = k}

Zero == <<48>>
ZeroSimilarity == <<48, 46, 48, 48, 48, 48>>

\* C16: a lineup without channels is analysed like any other: its counts are 0
\* against every lineup, itself included, its similarity is 0.0000 against every
\* lineup that has channels, its unique list is empty, and the unique list of every
\* other lineup is what its peers with channels alone leave of it.
C16_EmptyLineup ==
    \A e \in 1..N :
       sets[keys[e]] = {} =>
          /\ MatricesWritten =>
                \A j \in 1..N :
                   /\ Cell(csv.counts, e, j) = Zero
                   /\ Cell(csv.counts, j, e) = Zero
                   /\ sets[keys[j]] # {} =>
                         /\ Cell(csv.jaccard, e, j) = ZeroSimilarity
                         /\ Cell(csv.jaccard, j, e) = ZeroSimilarity
          /\ \A f \in 1..Len(csv.unique) :
                LET k == csv.unique[f][1]
                    peers == {o \in Range(keys) \ {k} : sets[o] # {}}
                IN /\ k = keys[e] => UniqueList(f) = <<>>
                   /\ ListedIds(csv.unique[f][2]) = sets[k] \ UNION {sets[o] : o \in peers}
          /\ pc = "done" => Len(csv.unique) = N

\* C16 witness: a run over an empty lineup and two lineups with channels is over,
\* and one of the two has a unique channel.
C16_Witness ==
    /\ pc = "done"
    /\ N = 3
    /\ \E e, a, b \in 1..N :
          /\ sets[keys[e]] = {}
          /\ a # b
          /\ sets[keys[a]] # {}
          /\ sets[keys[b]] # {}
          /\ sets[keys[a]] \cap sets[keys[b]] # {}
          /\ \E f \in UniqueFilesOf(keys[a]) : UniqueList(f) # <<>>

(***************************************************************************)
(* The literal scenario (checked under SpecScenario).                      *)
(***************************************************************************)
\* The position in keys of the lineup that holds channel id cid of the scenario.
HolderOf(cid) == CHOOSE i \in 1..N : cid \in ChannelSet(keys[i])

\* C17: for A = {1, 2, 3} and B = {2, 3, 4} the count of A and B is 2, their
\* similarity is written 0.5000 (2 / 4), the unique list of A is channel 1 with the
\* name CNN and the unique list of B is channel 4 with the name FOX.
C17_Scenario ==
    /\ MatricesWritten =>
          LET a == HolderOf(Str(1))
              b == HolderOf(Str(4))
          IN /\ Cell(csv.counts, a, b) = <<50>>
             /\ Cell(csv.counts, b, a) = <<50>>
             /\ Cell(csv.jaccard, a, b) = <<48, 46, 53, 48, 48, 48>>
             /\ Cell(csv.jaccard, b, a) = <<48, 46, 53, 48, 48, 48>>
    /\ \A f \in 1..Len(csv.unique) :
          UniqueList(f) = IF Str(1) \in ChannelSet(csv.unique[f][1])
                          THEN <<<<Str(1), CNN>>>>
                          ELSE <<<<Str(4), FOX>>>>
    /\ pc = "done" => Len(csv.unique) = 2

\* C17 witness: xmltv_analyze has finished its run over A and B.
C17_Witness ==
    /\ pc = "done"
    /\ tool = XmltvAnalyze
    /\ {ChannelSet(k) : k \in Range(keys)} = {ScenarioA, ScenarioB}
    /\ Len(csv.unique) = 2


(***************************************************************************)
(* Properties of the fetchers (checked under SpecFetch).                   *)
(***************************************************************************)
\* The file name of the lineup the loop is at.
CurrentName == out_name(ft_tool, Strip(lineups[ft_idx]))

\* The step ends a pass of the loop of fetcher t that asked the provider.
PassOf(t) ==
    /\ ft_tool = t
    /\ ft_pc = (IF t = FetchListings THEN "wait" ELSE "loop")
    /\ ft_idx' = ft_idx + 1
    /\ fetched' # <<>>

\* The arguments of --lineups that name a lineup.
Requested == {i \in DOMAIN lineups : Strip(lineups[i]) # <<>>}

\* The lines that report a written publish file, and the lines that report a lineup
\* that was skipped.
PublishedLines ==
    {i \in DOMAIN stdout : stdout[i].line = "Wrote" /\ stdout[i].dir = "publish_dir"}
SkipLines(kinds) == {i \in DOMAIN stdout : stdout[i].line \in kinds}

\* C18: in fetch_xmltvlistings_channels, a pass whose payload holds the daily-limit
\* message or fails looks_like_channels_xml, or whose fetch raises, leaves the publish
\* folder and the audit folder as they were; and whenever the publish folder changes,
\* the change is the file of the current lineup taking a payload that passed
\* looks_like_channels_xml.
C18_RefusedPayloadKeepsFiles ==
    [][ /\ ( /\ PassOf(FetchChannels)
             /\ \/ fetched'[1].raised
                \/ Contains(LIMIT_TEXT, fetched'[1].xml)
                \/ ~looks_like_channels_xml(fetched'[1].xml)
           ) => /\ publish_dir' = publish_dir
                /\ out_dir' = out_dir
        /\ (ft_tool = FetchChannels /\ publish_dir' # publish_dir)
              => /\ PassOf(FetchChannels)
                 /\ ~fetched'[1].raised
                 /\ looks_like_channels_xml(fetched'[1].xml)
                 /\ publish_dir' = WriteFile(publish_dir, CurrentName, fetched'[1].xml)
      ]_vars

\* A run of fetch_xmltvlistings_channels over two lineups has ended: the first was
\* skipped for the daily limit and its publish and audit files are the old ones, the
\* second was published.
C18_Witness ==
    /\ ft_tool = FetchChannels
    /\ ft_pc = "done"
    /\ Len(lineups) = 2
    /\ Requested = {1, 2}
    /\ LET first == out_name(ft_tool, Strip(lineups[1]))
           second == out_name(ft_tool, Strip(lineups[2]))
       IN /\ first # second
          /\ \E i \in SkipLines({"SKIP (limit)"}) : stdout[i].fname = first
          /\ first \in DOMAIN publish_dir /\ publish_dir[first] = OldFile
          /\ first \in DOMAIN out_dir /\ out_dir[first] = OldFile
          /\ \E i \in PublishedLines : stdout[i].fname = second
          /\ second \in DOMAIN publish_dir /\ publish_dir[second] # OldFile

\* C19: when fetch_xmltvlistings_channels returns, it returns 0 or 2; it returns 0
\* exactly when every requested lineup was reported as published, and then the publish
\* file of every requested lineup holds a payload of this run; it returns 2 when a
\* lineup was skipped as blocked, invalid or failed.
C19_ExitCode ==
    (ft_tool = FetchChannels /\ ft_pc = "done" /\ exit_code # <<1>>) =>
        /\ exit_code \in {<<0>>, <<2>>}
        /\ exit_code = <<0>> <=> Cardinality(PublishedLines) = Cardinality(Requested)
        /\ exit_code = <<0>> =>
              \A i \in Requested :
                  LET f == out_name(ft_tool, Strip(lineups[i]))
                  IN /\ f \in DOMAIN publish_dir
                     /\ publish_dir[f] \in Payloads
                     /\ \E j \in PublishedLines : stdout[j].fname = f
        /\ SkipLines({"SKIP (limit)", "SKIP (invalid)", "SKIP (error)"}) # {}
              => exit_code = <<2>>

\* fetch_xmltvlistings_channels returned 0 after two different lineups, both of which
\* had a publish file before the run, were published.
C19_Witness ==
    /\ ft_tool = FetchChannels
    /\ ft_pc = "done"
    /\ exit_code = <<0>>
    /\ Requested = {1, 2}
    /\ Strip(lineups[1]) # Strip(lineups[2])
    /\ Cardinality(PublishedLines) = 2
    /\ \A i \in Requested :
          LET f == out_name(ft_tool, Strip(lineups[i]))
          IN f \in DOMAIN publish_dir /\ publish_dir[f] \in Payloads

\* C20: in fetch_xmltvlistings_listings, a pass whose payload holds the daily-limit
\* message or is not XMLTV leaves the audit, device and publish folders as they were
\* and marks the run as blocked; the mark is never taken back and a run that ends
\* with it exits with code 2; and no step removes a file of the publish folder or
\* leaves empty one that was not.
C20_RefusedListingsKeepFiles ==
    /\ [](ft_tool = FetchListings /\ ft_pc = "done" /\ any_blocked => exit_code = <<2>>)
    /\ [][ /\ ( /\ PassOf(FetchListings)
                /\ ~fetched'[1].raised
                /\ \/ Contains(LIMIT_TEXT, fetched'[1].xml)
                   \/ ~looks_like_xmltv(fetched'[1].xml)
              ) => /\ out_dir' = out_dir
                   /\ device_dir' = device_dir
                   /\ publish_dir' = publish_dir
                   /\ any_blocked'
           /\ (ft_tool = FetchListings /\ any_blocked) => any_blocked'
           /\ ft_tool = FetchListings =>
                 \A f \in DOMAIN publish_dir :
                     /\ f \in DOMAIN publish_dir'
                     /\ publish_dir[f] # <<>> => publish_dir'[f] # <<>>
         ]_vars

\* C28: after a pass of fetch_xmltvlistings_listings over a lineup, the audit, device
\* and publish copies of the lineup's file have all been replaced by the fetched
\* payload or are all as they were before the pass.
C28_AllCopiesOrNone ==
    [][ PassOf(FetchListings) =>
          \/ /\ out_dir' = out_dir
             /\ device_dir' = device_dir
             /\ publish_dir' = publish_dir
          \/ /\ ~fetched'[1].raised
             /\ out_dir' = WriteFile(out_dir, CurrentName, fetched'[1].xml)
             /\ device_dir' = WriteFile(device_dir, CurrentName, fetched'[1].xml)
             /\ publish_dir' = WriteFile(publish_dir, CurrentName, fetched'[1].xml)
      ]_vars


\* The lineup ids of the arguments that are not blank, in the order given.
RECURSIVE NonBlank(_)
NonBlank(args) ==
    IF args = <<>> THEN <<>>
    ELSE (IF Strip(Head(args)) = <<>> THEN <<>> ELSE <<Strip(Head(args))>>)
            \o NonBlank(Tail(args))

\* C29: in both fetchers the requests made to the provider are, at every moment, the
\* non-blank lineups the loop has passed, once each and in the order given; a pass
\* whose payload is valid and whose writes do not raise writes the publish file
\* whatever happened to the lineups before it; and a run that entered the loop
\* reaches its return, with 0 or 2.
C29_EveryLineupOnceInOrder ==
    /\ [](ft_pc \in {"loop", "done"} => urls = NonBlank(SubSeq(lineups, 1, ft_idx - 1)))
    /\ [][ \A t \in FtTools :
             ( /\ PassOf(t)
               /\ ~fetched'[1].raised
               /\ ~Contains(LIMIT_TEXT, fetched'[1].xml)
               /\ IF t = FetchChannels THEN looks_like_channels_xml(fetched'[1].xml)
                  ELSE looks_like_xmltv(fetched'[1].xml)
               /\ stdout'[Len(stdout')].line = "Wrote"
             ) => publish_dir' = WriteFile(publish_dir, CurrentName, fetched'[1].xml)
         ]_vars
    /\ (ft_pc = "loop") ~> (ft_pc = "done" /\ ft_idx = Len(lineups) + 1
                            /\ exit_code \in {<<0>>, <<2>>})

(***************************************************************************)
(* Further properties of the base-lineup reports.                          *)
(***************************************************************************)
\* The channel ids of report lines: the id is the last field of a line.
KbLineIds(lines) == {lines[i][Len(lines[i])] : i \in 1..Len(lines)}

\* The report as configured lists the channel id as kept in the section of a lineup
\* that carries it.
KeptSomewhere(cid) ==
    \E i \in 1..Len(ConfiguredReport) :
        LET sec == ConfiguredReport[i]
        IN /\ cid \in SectionChannels(i)
           /\ \/ "keep_all" \in DOMAIN sec
              \/ "keep" \in DOMAIN sec /\ cid \in KbLineIds(sec.keep)

\* C26: once the report for the configured base lineup is written from the
\* analyser's output for the same catalogs, every channel id of every lineup is kept
\* by some lineup that carries it.
C26_NoChannelLost ==
    (kb_pc = "done" \/ kb_run = 2) =>
        \A f \in DOMAIN xml_files : \A cid \in xml_files[f] : KeptSomewhere(cid)

\* C27: in a report section of a lineup that is not the base lineup, the ids of the
\* KEEP lines and the ids of the REMOVE lines partition the channel ids of the lineup.
C27_KeepRemovePartition ==
    \A i \in 1..Len(report) :
        "keep" \in DOMAIN report[i] =>
            LET K == KbLineIds(report[i].keep)
                R == KbLineIds(report[i].remove)
                channel_set == SectionChannels(i)
            IN /\ K \subseteq channel_set
               /\ K \cup R = channel_set
               /\ K \cap R = {}


(***************************************************************************)
(* Further properties of the primary-baseline reports (checked under       *)
(* SpecPrimary).                                                           *)
(***************************************************************************)
\* The groups a configured lineup is a member of, and the blocks of the report whose
\* group it is a member of.
GroupsOf(x) == {g \in {CA, US, OTHER_GROUP} : x \in Range(Members(pr_tool, g))}
BlocksOf(x) ==
    {b \in 1..Len(remove_txt) : x \in Range(Members(pr_tool, remove_txt[b].group))}

\* The REMOVE/KEEP sections of a lineup in a block, and its member rows in the summary.
SectionsOf(b, x) ==
    {s \in 1..Len(remove_txt[b].sections) : remove_txt[b].sections[s].lineup = x}
MemberRowsOf(x) ==
    {r \in 1..Len(summary_rows) :
        /\ summary_rows[r].lineup_id = x[1]
        /\ summary_rows[r].lineup_label = x[2]
        /\ summary_rows[r].note # "PRIMARY(max channels)"}

\* C22: when the report is written, every configured lineup is a member of exactly one
\* group, which is one of the groups rendered; the report has exactly one block for
\* that group, whose primary has at least the lineup's channel count; the lineup is
\* that primary and has no REMOVE/KEEP section, or is not and has exactly one; and the
\* summary has exactly one member row for it, in its group.
C22_EveryLineupInOneGroup ==
    pr_pc = "done" =>
        \A x \in AllLineups(pr_tool) :
            /\ Cardinality(GroupsOf(x)) = 1
            /\ GroupsOf(x) \subseteq Range(GROUPS)
            /\ Cardinality(BlocksOf(x)) = 1
            /\ \A b \in BlocksOf(x) :
                  /\ remove_txt[b].group \in GroupsOf(x)
                  /\ b \in LoadedBlocks => Count(x) <= Count(remove_txt[b].primary)
                  /\ IF x = remove_txt[b].primary
                     THEN SectionsOf(b, x) = {}
                     ELSE Cardinality(SectionsOf(b, x)) = 1
            /\ Cardinality(MemberRowsOf(x)) = 1
            /\ \A r \in MemberRowsOf(x) : summary_rows[r].group \in GroupsOf(x)

\* The report is written; the last of the three lineups of the second group is its
\* primary and the two before it each have a section with a channel to remove.
C22_Witness ==
    /\ pr_pc = "done"
    /\ Len(remove_txt) = 2
    /\ LET members == Members(pr_tool, remove_txt[2].group)
       IN /\ Len(members) = 3
          /\ remove_txt[2].primary = members[3]
          /\ Len(remove_txt[2].sections) = 2
          /\ \A s \in 1..2 : /\ remove_txt[2].sections[s].lineup = members[s]
                             /\ remove_txt[2].sections[s].remove # <<>>
    /\ Len(remove_txt[1].sections) = 1


(***************************************************************************)
(* Properties of the stored display names and channel numbers (checked     *)
(* under SpecNames).                                                       *)
(***************************************************************************)
\* The last <channel> element read so far that carries the channel id.
LastRecord(cid) ==
    records[CHOOSE i \in 1..(rec_idx - 1) :
                /\ records[i].id = <<cid>>
                /\ \A j \in (i + 1)..(rec_idx - 1) : records[j].id # <<cid>>]

\* The display names stored for a channel id by a loader that keeps them all.
StoredNames(cid) ==
    IF ld_tool = XmltvAnalyze THEN ld_channels[cid].names
    ELSE ld_channels[cid].display_names

\* The first position of a name in a list of names.
FirstAt(list, name) ==
    CHOOSE i \in 1..Len(list) : list[i] = name /\ \A j \in 1..(i - 1) : list[j] # name

\* kept is the list src without its empty names and with every name at its first
\* occurrence only.
NamesKept(kept, src) ==
    /\ \A a, b \in 1..Len(kept) : a # b => kept[a] # kept[b]
    /\ Range(kept) = Range(src) \ {<<>>}
    /\ \A a, b \in 1..Len(kept) : a < b => FirstAt(src, kept[a]) < FirstAt(src, kept[b])
    /\ \A i \in 1..Len(src) :
          (src[i] # <<>> /\ \A j \in 1..(i - 1) : src[j] = <<>>) =>
              (kept # <<>> /\ kept[1] = src[i])

\* The names of the source as the loader compares them: without the white space
\* around them and, in xmltv_analyze, with one space for every run of white space.
Normalised(src) ==
    [i \in 1..Len(src) |->
        IF ld_tool = XmltvAnalyze THEN Strip(Collapse(src[i])) ELSE Strip(src[i])]

\* C23 as stated: the stored display names are the non-empty names of the source, as
\* they stand in the source, in first-seen order and each once.
C23_ExactSourceNames ==
    ld_tool \in {XmltvAnalyze, ChannelsInventory} =>
        \A cid \in DOMAIN ld_channels :
            NamesKept(StoredNames(cid), LastRecord(cid).names)

\* C23, amended: the stored display names are the names of the source without the
\* white space around them (in xmltv_analyze also with runs of white space collapsed),
\* blank names dropped, in first-seen order and each once: no name occurs twice, names
\* that differ only in letter case are both kept, and position 0 holds the first
\* non-blank name.
C23_TrimmedSourceNames ==
    ld_tool \in {XmltvAnalyze, ChannelsInventory} =>
        \A cid \in DOMAIN ld_channels :
            NamesKept(StoredNames(cid), Normalised(LastRecord(cid).names))

\* A loader that keeps all names has read two channels to the end: one whose source
\* names are "ESPN", "espn", "ESPN", stored as "ESPN", "espn", and one whose source
\* names are " ", " HBO  2 ", "HBO 2", stored with "HBO 2" last.
C23_Witness ==
    /\ ld_pc = "done"
    /\ ld_tool \in {XmltvAnalyze, ChannelsInventory}
    /\ Len(records) = 2
    /\ records[1].id = <<Str(1)>> /\ records[2].id = <<Str(2)>>
    /\ records[1].names = <<ESPN, Lower(ESPN), ESPN>>
    /\ StoredNames(Str(1)) = <<ESPN, Lower(ESPN)>>
    /\ Len(records[2].names) = 3
    /\ records[2].names[1] = <<32>>
    /\ StoredNames(Str(2))[Len(StoredNames(Str(2)))] = records[2].names[3]
    /\ Len(StoredNames(Str(2))) < 3


\* The names of a <channel> element without the white space around them.
Trimmed(src) == [i \in 1..Len(src) |-> Strip(src[i])]

\* One to four digits, optionally followed by a dot and one to three digits.
NumericWithDecimal(s) ==
    \E n \in 1..4 :
        /\ Len(s) >= n
        /\ \A i \in 1..n : s[i] >= 48 /\ s[i] <= 57
        /\ \/ Len(s) = n
           \/ /\ Len(s) \in (n + 2)..(n + 4)
              /\ s[n + 1] = 46
              /\ \A i \in (n + 2)..Len(s) : s[i] >= 48 /\ s[i] <= 57

\* C24: a channel's channel_number is the first of its display names, in source
\* order, that is numeric with an optional decimal part, and is the empty string when
\* no display name is.
C24_FirstMatchingNumber ==
    ld_tool \in {ChannelsInventory} \cup PrTools =>
        \A cid \in DOMAIN ld_channels :
            LET dns == Trimmed(LastRecord(cid).names)
                num == ld_channels[cid].channel_number
            IN \/ /\ num = <<>>
                  /\ \A i \in 1..Len(dns) : ~NumericWithDecimal(dns[i])
               \/ \E i \in 1..Len(dns) :
                     /\ dns[i] = num
                     /\ NumericWithDecimal(num)
                     /\ \A j \in 1..(i - 1) : ~NumericWithDecimal(dns[j])

\* A loader has read a channel with two numeric names, "12" before "5.1", and stored
\* "12", and a channel without a numeric name, stored with the empty number.
C24_Witness ==
    /\ ld_pc = "done"
    /\ ld_tool \in {ChannelsInventory} \cup PrTools
    /\ Len(records) = 2
    /\ records[1].id = <<Str(1)>> /\ records[2].id = <<Str(2)>>
    /\ records[1].names = <<CNN, N12, N5_1>>
    /\ ld_channels[Str(1)].channel_number = N12
    /\ records[2].names = <<ESPN, Lower(ESPN), ESPN>>
    /\ ld_channels[Str(2)].channel_number = <<>>


(***************************************************************************)
(* Properties of the lineups fetcher (checked under SpecLineups).          *)
(***************************************************************************)
\* The responses that are refused: those without a <lineups> block (the empty text,
\* the HTML page, the other root name, the tag that is never closed), those with the
\* daily-limit message, and those whose block is not well-formed XML.
RefusedResponses ==
    {GlResponses[i] : i \in {1, 2, 9, 11} \cup {3, 4} \cup {7, 8, 17, 20, 22, 24}}

\* C21: when the response has no <lineups> block, holds the daily-limit message or
\* holds a block that does not parse, main returns 2 and has written no publish file
\* and no audit file: every file is absent or as the earlier run left it.
C21_RefusedResponseWritesNothing ==
    (gl_pc = "done" /\ gl_raw # <<>> /\ gl_raw[1] \in RefusedResponses) =>
        /\ gl_rc = <<2>>
        /\ \A f \in LineupFiles :
              /\ gl_pub[f] \in {<<>>, OldLineups}
              /\ gl_audit[f] = <<>> \/ \A g \in LineupFiles : gl_audit[g] = OldLineups

\* A run that got a lineups document followed by the daily-limit message has ended
\* with 2; lineups.xml of the publish folder is as before and lineups.json is still
\* absent; the audit folder is empty.
C21_Witness ==
    /\ gl_pc = "done"
    /\ gl_raw = <<GlResponses[4]>>
    /\ gl_rc = <<2>>
    /\ gl_pub["lineups.xml"] = OldLineups
    /\ gl_pub["lineups.json"] = <<>>
    /\ gl_audit["lineups.csv"] = <<>>


(***************************************************************************)
(* Properties of the mapping tool (checked under SpecMapping).             *)
(***************************************************************************)
\* A display name equals the variant name of a map row ignoring case, both without
\* the white space around them; a variant name that is blank matches nothing.
NameMatches(dn, r) ==
    /\ Strip(r.variant_name) # <<>>
    /\ Lower(Strip(dn)) = Lower(Strip(r.variant_name))

\* The display names of a record of channels.json.
NamesOf(ch) == IF "display_names" \in DOMAIN ch THEN ch["display_names"] ELSE <<>>

\* The position of the first display name of a record that matches a row, 0 if no
\* display name does.
FirstMatch(ch, rows) ==
    LET hits == {j \in 1..Len(NamesOf(ch)) :
                    \E k \in 1..Len(rows) : NameMatches(NamesOf(ch)[j], rows[k])}
    IN IF hits = {} THEN 0 ELSE CHOOSE j \in hits : \A h \in hits : j <= h

\* The row matched by a display name: the last one of the file with that variant.
RowFor(dn, rows) ==
    rows[CHOOSE k \in 1..Len(rows) :
            /\ NameMatches(dn, rows[k])
            /\ \A h \in (k + 1)..Len(rows) : ~NameMatches(dn, rows[h])]

\* The record written for the record ch: unchanged when no display name matches, else
\* with the four mapping fields, three of them the cells of the row matched by the
\* first matching display name and canonical_name as given by canon.
WrittenAs(out, ch, rows, canon) ==
    IF FirstMatch(ch, rows) = 0 THEN out = ch
    ELSE LET r == RowFor(NamesOf(ch)[FirstMatch(ch, rows)], rows)
         IN /\ DOMAIN out = DOMAIN ch \cup MappingFields
            /\ \A k \in DOMAIN ch \ MappingFields : out[k] = ch[k]
            /\ out["mapping_type"] = Strip(r.type)
            /\ out["mapping_country"] = Strip(r.country)
            /\ out["mapping_feed"] = Strip(r.feed)
            /\ out["canonical_name"] = canon

\* The run has ended with 0 and both files hold the same records, one for every record
\* of channels.json.
EnrichedWritten ==
    /\ mp_pc = "done"
    /\ mp_rc = <<0>>
    /\ mp_iptv_out = mp_rep_out
    /\ Len(mp_iptv_out[1]) = Len(mp_channels_file[1])

\* C25 as stated: a record gets the mapping fields exactly when one of its display
\* names equals a variant name ignoring case (and the white space around the two
\* names), all four taken from the row matched by the first such display name; other
\* records are left unchanged.
C25_FieldsFromMatchedEntry ==
    (mp_pc = "done" /\ mp_rc = <<0>>) =>
        /\ EnrichedWritten
        /\ \A i \in 1..Len(mp_channels_file[1]) :
              LET ch == mp_channels_file[1][i]
                  rows == mp_map_file[1]
                  j == FirstMatch(ch, rows)
              IN WrittenAs(mp_iptv_out[1][i], ch, rows,
                           IF j = 0 THEN <<>>
                           ELSE Strip(RowFor(NamesOf(ch)[j], rows).canonical_name))

\* C25, amended: a record gets the mapping fields exactly when one of its display
\* names equals a variant name that is not blank, ignoring case and the white space
\* around the two names; type, country and feed are those of the last row with the
\* variant matched by the first such display name, and canonical_name is that row's
\* unless it is empty, when it is the record's full_name (the empty string without
\* one); other records are left unchanged.
C25_CanonicalNameOrFullName ==
    (mp_pc = "done" /\ mp_rc = <<0>>) =>
        /\ EnrichedWritten
        /\ \A i \in 1..Len(mp_channels_file[1]) :
              LET ch == mp_channels_file[1][i]
                  rows == mp_map_file[1]
                  j == FirstMatch(ch, rows)
                  cn == IF j = 0 THEN <<>>
                        ELSE Strip(RowFor(NamesOf(ch)[j], rows).canonical_name)
              IN WrittenAs(mp_iptv_out[1][i], ch, rows,
                           IF cn # <<>> THEN cn
                           ELSE IF "full_name" \in DOMAIN ch THEN ch["full_name"]
                           ELSE <<>>)

\* A run has written two records: the first of the two display names of the first
\* record matches a row without canonical name, and the record is written with its
\* full_name as canonical_name and with the feed of the row; the second record has
\* display names, none of which matches, and is written as it was.
C25_Witness ==
    /\ EnrichedWritten
    /\ Len(mp_iptv_out[1]) = 2
    /\ FirstMatch(mp_channels_file[1][1], mp_map_file[1]) = 1
    /\ Len(NamesOf(mp_channels_file[1][1])) = 2
    /\ "full_name" \in DOMAIN mp_channels_file[1][1]
    /\ mp_iptv_out[1][1]["canonical_name"] = mp_channels_file[1][1]["full_name"]
    /\ mp_iptv_out[1][1]["mapping_feed"] # <<>>
    /\ NamesOf(mp_channels_file[1][2]) # <<>>
    /\ mp_iptv_out[1][2] = mp_channels_file[1][2]
=============================================================================
